---------------------------- MODULE Spec2Model ----------------------------
(* Model of the aqar999 real-estate listing server: the MongoStorage        *)
(* persistence layer (server/storage.ts), the zod schemas (shared/schema.ts) *)
(* and the express routes (server/routes.ts) that call them.                 *)
(*                                                                           *)
(* A stored document is a function from the names of the fields it holds to  *)
(* their values, so an optional field that was never set is absent from the  *)
(* DOMAIN of the document, as in the document store.  Arabic string literals *)
(* of the source are transliterated.                                         *)
EXTENDS Integers, Sequences, FiniteSets, TLC

VARIABLES
    users,          \* the "users" collection: a set of documents
    properties,     \* the "properties" collection: a set of documents
    oidCounter,     \* number of ObjectIds the driver has generated so far
    now,            \* the server clock read by new Date()
    sessionUserId,  \* req.session.userId of the one client session, or NoSession
    writes,         \* number of requests served so far that added to or changed the store
    response,       \* the request being answered and the response to it, or NoResponse
    testimonials,   \* the "testimonials" collection
    contactMessages,\* the "contact_messages" collection
    initialized,    \* MongoStorage.initialized of the running process
    registered,     \* whether registerRoutes has registered the routes
    calls,          \* the position of each initialize() call of the running process
    collections,    \* whether the collection fields of the storage instance are assigned
    previous,       \* the last response the client has read, where it is recorded
    client          \* the browser: the page it shows and the state of that page's components

\* the collections that hold what visitors submit
feedbackVars == <<testimonials, contactMessages>>

\* the state of the process's start-up
bootVars == <<initialized, registered, calls, collections>>

vars == <<users, properties, oidCounter, now, sessionUserId, writes, response,
          testimonials, contactMessages, initialized, registered, calls, collections,
          previous, client>>

-----------------------------------------------------------------------------
(* Bounds of the model *)

\* largest value the clock reaches
MaxClock == 1
\* number of requests that change the properties collection in one behaviour
MaxWrites == 2
\* number of storage calls that change the properties collection, when the
\* storage interface is called directly
MaxStorageWrites == 3
\* number of initialize() calls a process makes
MaxCalls == 2
\* number of testimonials and contact messages submitted in one behaviour
MaxSubmissions == 2

-----------------------------------------------------------------------------
(* ObjectId: the driver's 12-byte id and its 24-character hex form *)

NoSession == "<no session>"

\* the hex form of the n-th ObjectId generated
HexTable ==
    << "650000000000000000000001", "650000000000000000000002",
       "650000000000000000000003", "650000000000000000000004",
       "650000000000000000000005", "650000000000000000000006",
       "650000000000000000000007", "650000000000000000000008",
       "650000000000000000000009", "65000000000000000000000a",
       "65000000000000000000000b", "65000000000000000000000c" >>

\* ObjectId.prototype.toString
OidToString(n) == HexTable[n]

\* whether new ObjectId(s) accepts the string s: 24 hex characters
ObjectIdIsValid(s) == \E n \in 1..Len(HexTable) : HexTable[n] = s

\* new ObjectId(s) for a string it accepts
ObjectIdFromString(s) == CHOOSE n \in 1..Len(HexTable) : HexTable[n] = s

\* strings that are not 24 hex characters: new ObjectId(s) throws
MalformedIds == {"abc"}

-----------------------------------------------------------------------------
(* Documents *)

Has(doc, f) == f \in DOMAIN doc

\* { ...a, ...b } and $set: the fields of b override or are added to those of a
Spread(a, b) ==
    [f \in (DOMAIN a) \cup (DOMAIN b) |-> IF f \in DOMAIN b THEN b[f] ELSE a[f]]

\* the document without the fields in fs
Without(doc, fs) == [f \in (DOMAIN doc) \ fs |-> doc[f]]

\* the empty object {}
EmptyObj == [f \in {} |-> 0]

-----------------------------------------------------------------------------
(* shared/schema.ts: zod schemas.  A field's rule is one of                  *)
(*   "strMin1"  z.string().min(1, msg)     "str"   z.string()                *)
(*   "numMin0"  z.number().min(0, msg)     "num"   z.number()                *)
(*   "arrMin1"  z.array(..).min(1, msg)    "arr"   z.array(..)               *)
(*   "bool"     z.boolean()                "email" z.string().email(msg)     *)
(*   "num1to5"  z.number().min(1).max(5)                                     *)
(* Request bodies are drawn from well-typed JSON values, so a rule checks    *)
(* presence and the minimum only.                                            *)

NoDefault == "<no default>"

Field(name, rule, optional, default, msg) ==
    [name |-> name, rule |-> rule, optional |-> optional,
     default |-> default, msg |-> msg]

insertPropertySchema ==
    << Field("title",        "strMin1", FALSE, NoDefault,   "title required"),
       Field("description",  "strMin1", FALSE, NoDefault,   "description required"),
       Field("type",         "strMin1", FALSE, NoDefault,   "type required"),
       Field("price",        "numMin0", FALSE, NoDefault,   "price must be positive"),
       Field("currency",     "str",     FALSE, "SAR",       ""),
       Field("isRental",     "bool",    FALSE, FALSE,       ""),
       Field("rentalPeriod", "str",     TRUE,  NoDefault,   ""),
       Field("city",         "strMin1", FALSE, NoDefault,   "city required"),
       Field("area",         "str",     TRUE,  NoDefault,   ""),
       Field("neighborhood", "strMin1", FALSE, NoDefault,   "neighborhood required"),
       Field("address",      "strMin1", FALSE, NoDefault,   "address required"),
       Field("bedrooms",     "num",     TRUE,  NoDefault,   ""),
       Field("bathrooms",    "num",     TRUE,  NoDefault,   ""),
       Field("size",         "numMin0", FALSE, NoDefault,   "size required"),
       Field("features",     "arr",     TRUE,  NoDefault,   ""),
       Field("images",       "arrMin1", FALSE, NoDefault,   "at least one image required"),
       Field("status",       "str",     FALSE, "available", ""),
       Field("propertyCode", "str",     FALSE, NoDefault,   ""),
       Field("latitude",     "num",     TRUE,  NoDefault,   ""),
       Field("longitude",    "num",     TRUE,  NoDefault,   "") >>

insertContactMessageSchema ==
    << Field("name",    "strMin1", FALSE, NoDefault, "name required"),
       Field("email",   "email",   FALSE, NoDefault, "invalid email"),
       Field("phone",   "str",     TRUE,  NoDefault, ""),
       Field("subject", "strMin1", FALSE, NoDefault, "subject required"),
       Field("message", "strMin1", FALSE, NoDefault, "message required") >>

insertTestimonialSchema ==
    << Field("name",     "strMin1", FALSE, NoDefault, "name required"),
       Field("location", "strMin1", FALSE, NoDefault, "location required"),
       Field("message",  "strMin1", FALSE, NoDefault, "message required"),
       Field("rating",   "num1to5", FALSE, NoDefault, "") >>

\* z.string().email(): whether the string is an e-mail address, for the
\* strings that requests carry
IsEmail(s) == s \in {"visitor@example.sa"}

\* fields declared with .default(..)
DefaultedFields == {"currency", "isRental", "status"}

HasDefault(fld) == fld.name \in DefaultedFields

\* the rules with the minimum of z.array(..).min(1) left out
RuleAcceptsAnyArray(rule, v) ==
    CASE rule = "strMin1" -> v # ""
      [] rule = "numMin0" -> v >= 0
      [] rule = "num1to5" -> v >= 1 /\ v <= 5
      [] rule = "email"   -> IsEmail(v)
      [] OTHER -> TRUE

\* whether a present value passes the field's rule
RuleAccepts(rule, v) ==
    CASE rule = "strMin1" -> v # ""
      [] rule = "numMin0" -> v >= 0
      [] rule = "arrMin1" -> Len(v) >= 1
      [] rule = "num1to5" -> v >= 1 /\ v <= 5
      [] rule = "email"   -> IsEmail(v)
      [] OTHER -> TRUE

\* the issue zod raises for a field of the schema on this body, "" when none.
\* With partial (schema.partial()) every field is optional and an absent
\* field is left out without its default.
FieldIssue(fld, body, partial) ==
    IF ~Has(body, fld.name)
    THEN IF partial \/ fld.optional \/ HasDefault(fld) THEN "" ELSE "Required"
    ELSE IF RuleAccepts(fld.rule, body[fld.name]) THEN ""
         ELSE IF fld.msg = "" THEN "Invalid" ELSE fld.msg

SchemaNames(schema) == {schema[i].name : i \in 1..Len(schema)}

\* schema.parse(body): ok with the parsed data (unknown keys stripped, defaults
\* filled in), or a ZodError whose first issue, in the order of the schema's
\* keys, carries the message.
ZodParse(schema, body, partial) ==
    LET bad == {i \in 1..Len(schema) : FieldIssue(schema[i], body, partial) # ""}
        present == {i \in 1..Len(schema) :
                       \/ Has(body, schema[i].name)
                       \/ (~partial /\ HasDefault(schema[i]))}
        ByName(nm) == CHOOSE i \in 1..Len(schema) : schema[i].name = nm
    IN  IF bad # {}
        THEN [ok |-> FALSE,
              message |-> FieldIssue(schema[CHOOSE i \in bad : \A j \in bad : i <= j],
                                     body, partial),
              data |-> EmptyObj]
        ELSE [ok |-> TRUE,
              message |-> "",
              data |-> [nm \in {schema[i].name : i \in present} |->
                           IF Has(body, nm) THEN body[nm]
                           ELSE schema[ByName(nm)].default]]


-----------------------------------------------------------------------------
(* server/storage.ts: the document store behind MongoStorage *)

\* the documents of a collection that match { _id: oid }
ById(coll, oid) == {d \in coll : d._id = oid}

\* a unique index on field f rejects a document whose value of f another
\* document of the collection (other than the one with _id self) holds
UniqueIndexAccepts(coll, f, doc, self) ==
    ~\E d \in coll : d._id # self /\ Has(d, f) /\ Has(doc, f) /\ d[f] = doc[f]

\* the properties collection without its unique index
PropertyIndexAbsent(coll, doc, self) == TRUE

\* propertiesCollection.createIndex({ propertyCode: 1 }, { unique: true })
PropertyIndexAccepts(coll, doc, self) ==
    UniqueIndexAccepts(coll, "propertyCode", doc, self)

\* usersCollection.createIndex({ username: 1 } / { email: 1 }, { unique: true })
UserIndexAccepts(coll, doc, self) ==
    /\ UniqueIndexAccepts(coll, "username", doc, self)
    /\ UniqueIndexAccepts(coll, "email", doc, self)

\* all orders of the documents of S
RECURSIVE Orders(_)
Orders(S) ==
    IF S = {} THEN {<< >>}
    ELSE UNION {{<<d>> \o rest : rest \in Orders(S \ {d})} : d \in S}

\* the sort with the direction reversed: { createdAt: 1 }
SortCreatedAtAsc(S) ==
    {arr \in Orders(S) :
        \A i \in 1..Len(arr) : \A j \in i..Len(arr) :
            arr[i].createdAt <= arr[j].createdAt}

\* .sort({ createdAt: -1 }).toArray(): the arrays the store may return; the
\* order of documents with equal createdAt is not determined
SortCreatedAtDesc(S) ==
    {arr \in Orders(S) :
        \A i \in 1..Len(arr) : \A j \in i..Len(arr) :
            arr[i].createdAt >= arr[j].createdAt}

\* createUser(insertUser): the outcome of insertOne with the fresh id oid
createUser(coll, insertUser, oid, date) ==
    LET user == Spread(insertUser, [createdAt |-> date, _id |-> oid])
    IN  IF UserIndexAccepts(coll, user, oid)
        THEN [threw |-> FALSE, coll |-> coll \cup {user}, value |-> user]
        ELSE [threw |-> TRUE, coll |-> coll, value |-> EmptyObj]

\* getUser(id)
getUser(coll, id) ==
    IF ~ObjectIdIsValid(id)
    THEN [threw |-> TRUE, found |-> FALSE, value |-> EmptyObj]
    ELSE LET hit == ById(coll, ObjectIdFromString(id))
         IN  IF hit = {}
             THEN [threw |-> FALSE, found |-> FALSE, value |-> EmptyObj]
             ELSE [threw |-> FALSE, found |-> TRUE, value |-> CHOOSE d \in hit : TRUE]

\* getUserByUsername(username)
getUserByUsername(coll, username) ==
    LET hit == {d \in coll : d.username = username}
    IN  IF hit = {}
        THEN [found |-> FALSE, value |-> EmptyObj]
        ELSE [found |-> TRUE, value |-> CHOOSE d \in hit : TRUE]

\* getProperty(id): new ObjectId(id) throws on a malformed id
getProperty(coll, id) ==
    IF ~ObjectIdIsValid(id)
    THEN [threw |-> TRUE, found |-> FALSE, value |-> EmptyObj]
    ELSE LET hit == ById(coll, ObjectIdFromString(id))
         IN  IF hit = {}
             THEN [threw |-> FALSE, found |-> FALSE, value |-> EmptyObj]
             ELSE [threw |-> FALSE, found |-> TRUE, value |-> CHOOSE d \in hit : TRUE]

\* createProperty(insertProperty): insertOne of the data with createdAt added
createProperty(coll, insertProperty, oid, date) ==
    LET property == Spread(insertProperty, [createdAt |-> date, _id |-> oid])
    IN  IF PropertyIndexAccepts(coll, property, oid)
        THEN [threw |-> FALSE, coll |-> coll \cup {property}, value |-> property]
        ELSE [threw |-> TRUE, coll |-> coll, value |-> EmptyObj]

\* the update that catches the duplicate-key error and returns undefined
updatePropertySwallowing(coll, id, updateData) ==
    IF ~ObjectIdIsValid(id)
    THEN [threw |-> TRUE, found |-> FALSE, coll |-> coll, value |-> EmptyObj]
    ELSE LET hit == ById(coll, ObjectIdFromString(id))
         IN  IF hit = {}
             THEN [threw |-> FALSE, found |-> FALSE, coll |-> coll, value |-> EmptyObj]
             ELSE LET old == CHOOSE d \in hit : TRUE
                      new == Spread(old, updateData)
                  IN  IF PropertyIndexAccepts(coll, new, old._id)
                      THEN [threw |-> FALSE, found |-> TRUE,
                            coll |-> (coll \ {old}) \cup {new}, value |-> new]
                      ELSE [threw |-> FALSE, found |-> FALSE,
                            coll |-> coll, value |-> EmptyObj]

\* updateProperty(id, updateData): findOneAndUpdate with { $set: updateData },
\* returning the document after the update
updateProperty(coll, id, updateData) ==
    IF ~ObjectIdIsValid(id)
    THEN [threw |-> TRUE, found |-> FALSE, coll |-> coll, value |-> EmptyObj]
    ELSE LET hit == ById(coll, ObjectIdFromString(id))
         IN  IF hit = {}
             THEN [threw |-> FALSE, found |-> FALSE, coll |-> coll, value |-> EmptyObj]
             ELSE LET old == CHOOSE d \in hit : TRUE
                      new == Spread(old, updateData)
                  IN  IF PropertyIndexAccepts(coll, new, old._id)
                      THEN [threw |-> FALSE, found |-> TRUE,
                            coll |-> (coll \ {old}) \cup {new}, value |-> new]
                      ELSE [threw |-> TRUE, found |-> FALSE,
                            coll |-> coll, value |-> EmptyObj]

\* deleteProperty(id): deleteOne, true when deletedCount > 0
deleteProperty(coll, id) ==
    IF ~ObjectIdIsValid(id)
    THEN [threw |-> TRUE, value |-> FALSE, coll |-> coll]
    ELSE LET hit == ById(coll, ObjectIdFromString(id))
         IN  [threw |-> FALSE, value |-> Cardinality(hit) > 0, coll |-> coll \ hit]

(* searchProperties(search) *)

\* JavaScript truthiness of a string and of a number
TruthyStr(s) == s # ""
TruthyNum(n) == n # 0

StringFilterFields == {"city", "area", "neighborhood", "type"}

\* the fields of the query document that searchProperties builds
FilterFields(search) ==
    {f \in StringFilterFields : Has(search, f) /\ TruthyStr(search[f])}
    \cup {f \in {"isRental"} : Has(search, f)}
    \cup {f \in {"price"} : Has(search, "minPrice") \/ Has(search, "maxPrice")}
    \cup {f \in {"size"} : Has(search, "minSize") \/ Has(search, "maxSize")}
    \cup {f \in {"bedrooms"} : Has(search, f) /\ TruthyNum(search[f])}

\* the bounds tested for truthiness, as bedrooms is, instead of !== undefined
RangeMatchesTruthy(v, search, lo, hi) ==
    /\ (Has(search, lo) /\ TruthyNum(search[lo])) => v >= search[lo]
    /\ (Has(search, hi) /\ TruthyNum(search[hi])) => v <= search[hi]

\* { $gte: lo, $lte: hi } with each bound set when the search gives it
RangeMatches(v, search, lo, hi) ==
    /\ Has(search, lo) => v >= search[lo]
    /\ Has(search, hi) => v <= search[hi]

\* whether the document matches the query document's clause for field f; a
\* document that lacks the field matches no clause on it
ClauseMatches(doc, search, f) ==
    /\ Has(doc, f)
    /\ CASE f = "price"    -> RangeMatches(doc[f], search, "minPrice", "maxPrice")
         [] f = "size"     -> RangeMatches(doc[f], search, "minSize", "maxSize")
         [] f = "bedrooms" -> doc[f] >= search[f]
         [] OTHER          -> doc[f] = search[f]

FilterMatches(doc, search) ==
    \A f \in FilterFields(search) : ClauseMatches(doc, search, f)

\* the arrays find(filter).sort({ createdAt: -1 }).toArray() may return
searchProperties(coll, search) ==
    SortCreatedAtDesc({d \in coll : FilterMatches(d, search)})

\* cursor.limit(n): at most n documents, and all of them when n is 0, which
\* the store takes as no limit
CursorLimit(arr, n) ==
    IF n = 0 \/ n >= Len(arr) THEN arr ELSE SubSeq(arr, 1, n)

\* limit: number = 6
DefaultLimit == 6

\* getFeaturedProperties(limit): limit is << >> when the argument is left
\* out, <<n>> when it is n
getFeaturedProperties(coll, limit) ==
    LET n == IF limit = << >> THEN DefaultLimit ELSE limit[1]
    IN  {CursorLimit(arr, n) :
            arr \in SortCreatedAtDesc({d \in coll : d.status = "available"})}

(* contact messages *)

\* createContactMessage(message): insertOne with createdAt and isRead: false
createContactMessage(coll, message, oid, date) ==
    LET contactMessage ==
            Spread(message, [createdAt |-> date, isRead |-> FALSE, _id |-> oid])
    IN  [threw |-> FALSE, coll |-> coll \cup {contactMessage}, value |-> contactMessage]

\* getAllContactMessages(): find().sort({ createdAt: -1 }).toArray()
getAllContactMessages(coll) == SortCreatedAtDesc(coll)

\* the update that flips the flag instead of setting it
markContactMessageAsReadToggle(coll, id) ==
    IF ~ObjectIdIsValid(id)
    THEN [threw |-> TRUE, value |-> FALSE, coll |-> coll]
    ELSE LET hit == ById(coll, ObjectIdFromString(id))
         IN  [threw |-> FALSE, value |-> hit # {},
              coll |-> (coll \ hit) \cup {Spread(d, [isRead |-> ~d.isRead]) : d \in hit}]

\* the update that replaces the document by { isRead: true } instead of
\* setting the one field
markContactMessageAsReadReplace(coll, id) ==
    IF ~ObjectIdIsValid(id)
    THEN [threw |-> TRUE, value |-> FALSE, coll |-> coll]
    ELSE LET hit == ById(coll, ObjectIdFromString(id))
             modified == {d \in hit : ~d.isRead}
         IN  [threw |-> FALSE, value |-> Cardinality(modified) > 0,
              coll |-> (coll \ hit) \cup {[_id |-> d._id, isRead |-> TRUE] : d \in hit}]

\* markContactMessageAsRead(id): updateOne with { $set: { isRead: true } },
\* true when modifiedCount > 0, that is when the message was unread
markContactMessageAsRead(coll, id) ==
    IF ~ObjectIdIsValid(id)
    THEN [threw |-> TRUE, value |-> FALSE, coll |-> coll]
    ELSE LET hit == ById(coll, ObjectIdFromString(id))
             modified == {d \in hit : ~d.isRead}
         IN  [threw |-> FALSE, value |-> Cardinality(modified) > 0,
              coll |-> (coll \ hit) \cup {Spread(d, [isRead |-> TRUE]) : d \in hit}]

(* testimonials *)

\* createTestimonial(testimonial): insertOne with createdAt and isApproved: false
createTestimonial(coll, testimonial, oid, date) ==
    LET newTestimonial ==
            Spread(testimonial, [createdAt |-> date, isApproved |-> FALSE, _id |-> oid])
    IN  [threw |-> FALSE, coll |-> coll \cup {newTestimonial}, value |-> newTestimonial]

\* the query without its filter: find().toArray()
getTestimonialsUnfiltered(coll) == Orders(coll)

\* getApprovedTestimonials(): find({ isApproved: true }).toArray(), in the
\* order the store chooses
getApprovedTestimonials(coll) == Orders({d \in coll : d.isApproved})

\* getAllTestimonials(): find().sort({ createdAt: -1 }).toArray()
getAllTestimonials(coll) == SortCreatedAtDesc(coll)

\* approveTestimonial(id): updateOne with { $set: { isApproved: true } },
\* true when modifiedCount > 0, that is when the testimonial was unapproved
approveTestimonial(coll, id) ==
    IF ~ObjectIdIsValid(id)
    THEN [threw |-> TRUE, value |-> FALSE, coll |-> coll]
    ELSE LET hit == ById(coll, ObjectIdFromString(id))
             modified == {d \in hit : ~d.isApproved}
         IN  [threw |-> FALSE, value |-> Cardinality(modified) > 0,
              coll |-> (coll \ hit) \cup {Spread(d, [isApproved |-> TRUE]) : d \in hit}]


-----------------------------------------------------------------------------
(* server/storage.ts: seedData *)

SeedAdmin ==
    [username |-> "aqarpanel", password |-> "Mm345", name |-> "System Admin",
     role |-> "admin", email |-> "admin@altakhim.com", phone |-> "+966500000000"]

sampleProperties ==
    << [title |-> "Luxury villa with pool", description |-> "villa",
        type |-> "villa", price |-> 2800000, currency |-> "SAR",
        isRental |-> FALSE, city |-> "Riyadh", area |-> "North Riyadh",
        neighborhood |-> "Hay AlMalqa", address |-> "Olaya St, Hay AlMalqa",
        bedrooms |-> 5, bathrooms |-> 4, size |-> 450,
        features |-> <<"pool", "garden">>, images |-> <<"photo-1600585154340">>,
        status |-> "available", propertyCode |-> "SA-12345"],
       [title |-> "Luxury apartment with sea view", description |-> "apartment",
        type |-> "apartment", price |-> 85000, currency |-> "SAR",
        isRental |-> TRUE, rentalPeriod |-> "yearly", city |-> "Jeddah",
        area |-> "North Jeddah", neighborhood |-> "Hay AlShati",
        address |-> "Corniche, Hay AlShati", bedrooms |-> 3, bathrooms |-> 2,
        size |-> 180, features |-> <<"sea view", "balcony">>,
        images |-> <<"photo-1560448204">>, status |-> "available",
        propertyCode |-> "SA-12346"],
       [title |-> "Residential investment land", description |-> "land",
        type |-> "land", price |-> 1200000, currency |-> "SAR",
        isRental |-> FALSE, city |-> "Dammam", area |-> "West Dammam",
        neighborhood |-> "Hay AlShati AlGharbi",
        address |-> "Hay AlShati AlGharbi, Dammam", size |-> 750,
        features |-> <<"20m street", "flat">>, images |-> <<"photo-1512917774080">>,
        status |-> "available", propertyCode |-> "SA-12347"] >>

sampleTestimonials ==
    << [name |-> "Mohammed AlSaeed", location |-> "Riyadh",
        message |-> "excellent experience", rating |-> 5],
       [name |-> "Sara AlAhmadi", location |-> "Jeddah",
        message |-> "valuable advice", rating |-> 4] >>

\* the properties collection after the loop over sampleProperties from index
\* i on, the k-th sample being inserted with the k-th ObjectId after the
\* user's, at the time times[k]
RECURSIVE SeedProperties(_, _, _)
SeedProperties(coll, i, times) ==
    IF i > Len(sampleProperties) THEN coll
    ELSE SeedProperties(
             createProperty(coll, sampleProperties[i], 1 + i, times[i]).coll,
             i + 1, times)

\* the times at which seedData may insert the sample properties: in order,
\* within the same millisecond or the next
SeedTimes ==
    {t \in [1..Len(sampleProperties) -> 0..1] :
        \A i \in 1..(Len(sampleProperties) - 1) : t[i] <= t[i + 1]}

\* the testimonials collection after the loop over sampleTestimonials from
\* index i on: each sample is created, with the ObjectId that follows those
\* of the properties, and then approved
RECURSIVE SeedTestimonials(_, _, _)
SeedTestimonials(coll, i, date) ==
    IF i > Len(sampleTestimonials) THEN coll
    ELSE LET oid == 1 + Len(sampleProperties) + i
             created == createTestimonial(coll, sampleTestimonials[i], oid, date)
         IN  SeedTestimonials(
                 approveTestimonial(created.coll, OidToString(oid)).coll, i + 1, date)

\* ObjectIds generated by seedData: the user, the properties, the testimonials
SeedOids == 1 + Len(sampleProperties) + Len(sampleTestimonials)

-----------------------------------------------------------------------------
(* The state after initialize() has seeded an empty store *)

NoResponse == [op |-> "none"]

\* the browser before it has opened a page
NoClient == [page |-> "none"]

\* the initialize() calls of a process: the first is the one registerRoutes
\* makes, the others are made by other callers of the storage instance
Calls == 1..MaxCalls

\* the number of inserts and updates seedData makes: the user, the sample
\* properties, and each sample testimonial created and then approved
SeedSteps == 1 + Len(sampleProperties) + 2 * Len(sampleTestimonials)

\* the position of an initialize() call: at names the await it is suspended
\* at ("connect", "indexes", "count", "seed"), or says that it has not been
\* made, has returned or has thrown; step counts the inserts and updates of
\* seedData it has completed; userCount is the count it read, -1 before it
\* has counted; created is the ObjectId of the testimonial it created last
At(at, step, userCount, created) ==
    [at |-> at, step |-> step, userCount |-> userCount, created |-> created]
NotCalled == At("not called", 0, -1, 0)

\* the call that registerRoutes made on an empty store, after its return
Returned == At("returned", SeedSteps, 0, SeedOids)

Init ==
    \E times \in SeedTimes :
        /\ users = createUser({}, SeedAdmin, 1, times[1]).coll
        /\ properties = SeedProperties({}, 1, times)
        /\ oidCounter = SeedOids
        /\ now = times[Len(sampleProperties)]
        /\ sessionUserId = NoSession
        /\ writes = 0
        /\ response = NoResponse
        /\ testimonials = SeedTestimonials({}, 1, times[Len(sampleProperties)])
        /\ contactMessages = {}
        /\ initialized = TRUE
        /\ registered = TRUE
        /\ collections = TRUE
        /\ calls = [c \in Calls |-> IF c = 1 THEN Returned ELSE NotCalled]
        /\ previous = NoResponse
        /\ client = NoClient

\* no request is being answered
Idle == response.op = "none"

\* a request can be routed: the routes are registered and the client is not
\* waiting for a response
Routed == Idle /\ registered

\* time passes between two requests
Tick ==
    /\ Idle
    /\ now < MaxClock
    /\ now' = now + 1
    /\ UNCHANGED <<users, properties, oidCounter, sessionUserId, writes, response>>
    /\ UNCHANGED <<feedbackVars, bootVars, previous, client>>

\* the client has read the response and may send its next request
Receive ==
    /\ ~Idle
    /\ response' = NoResponse
    /\ UNCHANGED <<users, properties, oidCounter, now, sessionUserId, writes>>
    /\ UNCHANGED <<feedbackVars, bootVars, previous, client>>


-----------------------------------------------------------------------------
(* Calls of the storage interface (IStorage) *)

\* a singleton object { f: v }
Obj(f, v) == [g \in {f} |-> v]

\* InsertProperty values given to createProperty
NewProperty(type, price, isRental, city, size, code) ==
    [title |-> "listing", description |-> "text", type |-> type, price |-> price,
     currency |-> "SAR", isRental |-> isRental, city |-> city,
     neighborhood |-> "Hay AlMalqa", address |-> "street", size |-> size,
     images |-> <<"img1">>, status |-> "available", propertyCode |-> code]

InsertPropertyInputs ==
    { Spread(NewProperty("villa", 2800000, FALSE, "Riyadh", 450, "SA-20001"),
             [area |-> "North Riyadh", bedrooms |-> 5]),
      Spread(NewProperty("apartment", 0, TRUE, "Riyadh", 0, "SA-20002"),
             [bedrooms |-> 0]),
      NewProperty("land", 3000000, FALSE, "Jeddah", 450, "SA-12345") }

\* storage.createProperty(insertProperty)
StorageCreateProperty(insertProperty) ==
    /\ Idle
    /\ writes < MaxStorageWrites
    /\ LET r == createProperty(properties, insertProperty, oidCounter + 1, now)
       IN  /\ properties' = r.coll
           /\ oidCounter' = IF r.threw THEN oidCounter ELSE oidCounter + 1
           /\ writes' = IF r.threw THEN writes ELSE writes + 1
           /\ response' = [op |-> "createProperty", req |-> insertProperty,
                           threw |-> r.threw, value |-> r.value]
    /\ UNCHANGED <<users, now, sessionUserId>>
    /\ UNCHANGED <<feedbackVars, bootVars, previous, client>>

\* ids a caller may name: those of the stored properties, a well-formed id
\* that no document has, and malformed ones
UnusedId == HexTable[Len(HexTable)]

PropertyIds ==
    {OidToString(d._id) : d \in properties} \cup {UnusedId} \cup MalformedIds

\* storage.deleteProperty(id)
StorageDeleteProperty(id) ==
    /\ Routed
    /\ writes < MaxStorageWrites
    /\ LET r == deleteProperty(properties, id)
       IN  /\ properties' = r.coll
           /\ writes' = IF r.coll = properties THEN writes ELSE writes + 1
           /\ response' = [op |-> "deleteProperty", req |-> id,
                           threw |-> r.threw, value |-> r.value]
    /\ UNCHANGED <<users, oidCounter, now, sessionUserId>>
    /\ UNCHANGED <<feedbackVars, bootVars, previous, client>>

\* the values a PropertySearch may hold in each of its fields
SearchValues ==
    [city |-> {"", "Riyadh"}, area |-> {"North Riyadh"},
     neighborhood |-> {"Hay AlMalqa"}, type |-> {"villa"},
     isRental |-> {TRUE, FALSE},
     minPrice |-> {0, 2000000}, maxPrice |-> {0, 3000000},
     minSize |-> {0, 450}, maxSize |-> {0, 450},
     bedrooms |-> {0, 4, 6}]

SearchFields == DOMAIN SearchValues

\* PropertySearch objects with at most two fields present, and the two
\* searches of the end-to-end scenario
SearchInputs ==
    {EmptyObj}
    \cup UNION {{Obj(f, v) : v \in SearchValues[f]} : f \in SearchFields}
    \cup UNION {UNION {{Spread(Obj(f, v), Obj(g, w)) :
                           v \in SearchValues[f], w \in SearchValues[g]} :
                       g \in SearchFields \ {f}} : f \in SearchFields}
    \cup {[minPrice |-> 2000000, maxPrice |-> 3000000, bedrooms |-> 4],
          [minPrice |-> 0, maxPrice |-> 3000000, minSize |-> 0, bedrooms |-> 0]}

\* storage.searchProperties(search)
StorageSearch(search) ==
    /\ Idle
    /\ \E arr \in searchProperties(properties, search) :
           response' = [op |-> "searchProperties", req |-> search,
                        threw |-> FALSE, value |-> arr]
    /\ UNCHANGED <<users, properties, oidCounter, now, sessionUserId, writes>>
    /\ UNCHANGED <<feedbackVars, bootVars, previous, client>>


-----------------------------------------------------------------------------
(* server/routes.ts: GET /api/properties/search *)

\* a JavaScript number that may be NaN
Num(n) == [nan |-> FALSE, n |-> n]
NaN == [nan |-> TRUE, n |-> 0]

\* the decimal strings the model's requests carry, with their values
NumeralTable ==
    [s \in {"0", "1", "2", "4", "6", "450", "2000000", "3000000"} |->
        CASE s = "0" -> 0 [] s = "1" -> 1 [] s = "2" -> 2 [] s = "4" -> 4
          [] s = "6" -> 6 [] s = "450" -> 450
          [] s = "2000000" -> 2000000 [] s = "3000000" -> 3000000]

\* parseFloat(s) and parseInt(s): the number a numeral denotes, NaN for a
\* string that does not start with one
parseFloat(s) == IF s \in DOMAIN NumeralTable THEN Num(NumeralTable[s]) ELSE NaN
parseInt(s) == IF s \in DOMAIN NumeralTable THEN Num(NumeralTable[s]) ELSE NaN

FloatParams == {"minPrice", "maxPrice", "minSize", "maxSize"}
NumberParams == FloatParams \cup {"bedrooms"}

\* the searchParams object the handler builds from req.query: a parameter is
\* copied when its string is truthy
SearchParamsOf(query) ==
    [f \in {g \in DOMAIN query : TruthyStr(query[g])} |->
        CASE f \in FloatParams -> parseFloat(query[f])
          [] f = "bedrooms"    -> parseInt(query[f])
          [] f = "isRental"    -> query[f] = "true"
          [] OTHER             -> query[f]]

\* propertySearchSchema.parse(searchParams): every field optional, z.number()
\* rejects NaN
propertySearchParse(searchParams) ==
    IF \E f \in NumberParams \cap DOMAIN searchParams : searchParams[f].nan
    THEN [ok |-> FALSE, message |-> "Expected number, received nan", data |-> EmptyObj]
    ELSE [ok |-> TRUE, message |-> "",
          data |-> [f \in DOMAIN searchParams |->
                       IF f \in NumberParams THEN searchParams[f].n
                       ELSE searchParams[f]]]

\* the strings a query may carry in each parameter
QueryValues ==
    [city |-> {"", "Riyadh"}, area |-> {"North Riyadh"},
     neighborhood |-> {"Hay AlMalqa"}, type |-> {"villa"},
     isRental |-> {"true", "false"},
     minPrice |-> {"0", "2000000", "abc"}, maxPrice |-> {"0", "3000000"},
     minSize |-> {"0", "450"}, maxSize |-> {"", "450"},
     bedrooms |-> {"0", "4", "6"}]

\* query strings with at most two parameters, and those of the scenario
QueryInputs ==
    {EmptyObj}
    \cup UNION {{Obj(f, v) : v \in QueryValues[f]} : f \in SearchFields}
    \cup UNION {UNION {{Spread(Obj(f, v), Obj(g, w)) :
                           v \in QueryValues[f], w \in QueryValues[g]} :
                       g \in SearchFields \ {f}} : f \in SearchFields}
    \cup {[minPrice |-> "2000000", maxPrice |-> "3000000", bedrooms |-> "4"]}

\* app.get("/api/properties/search")
GetSearch(query) ==
    /\ Routed
    /\ LET parsed == propertySearchParse(SearchParamsOf(query))
       IN  IF ~parsed.ok
           THEN response' = [op |-> "GET /api/properties/search", req |-> query,
                             status |-> 400, search |-> EmptyObj, value |-> << >>]
           ELSE \E arr \in searchProperties(properties, parsed.data) :
                    response' = [op |-> "GET /api/properties/search", req |-> query,
                                 status |-> 200, search |-> parsed.data,
                                 value |-> arr]
    /\ UNCHANGED <<users, properties, oidCounter, now, sessionUserId, writes>>
    /\ UNCHANGED <<feedbackVars, bootVars, previous, client>>

\* the storage calls and the search route
SearchNext ==
    \/ Tick
    \/ Receive
    \/ \E insertProperty \in InsertPropertyInputs : StorageCreateProperty(insertProperty)
    \/ \E id \in PropertyIds : StorageDeleteProperty(id)
    \/ \E search \in SearchInputs : StorageSearch(search)
    \/ \E query \in QueryInputs : GetSearch(query)

SearchSpec == Init /\ [][SearchNext]_vars


-----------------------------------------------------------------------------
(* Properties of searchProperties *)

\* the documents of an array
Elements(arr) == {arr[i] : i \in 1..Len(arr)}

\* the array holds each document of S exactly once
HoldsExactly(arr, S) == Elements(arr) = S /\ Len(arr) = Cardinality(S)

\* newest first
NewestFirst(arr) ==
    \A i \in 1..Len(arr) : \A j \in 1..Len(arr) :
        i < j => arr[i].createdAt >= arr[j].createdAt

IsStorageSearch == response.op = "searchProperties"
IsRouteSearch == response.op = "GET /api/properties/search" /\ response.status = 200

\* C1: searchProperties with an empty filter returns every stored property
\* exactly once, newest first by createdAt, and the empty array (no error)
\* when nothing is stored.
C1_EmptySearchReturnsAll ==
    (IsStorageSearch /\ DOMAIN response.req = {}) =>
        /\ ~response.threw
        /\ HoldsExactly(response.value, properties)
        /\ NewestFirst(response.value)
        /\ (properties = {} => response.value = << >>)

\* an unfiltered search that returned several properties of different ages
C1_Witness ==
    /\ IsStorageSearch /\ DOMAIN response.req = {}
    /\ Len(response.value) >= 3
    /\ \E i \in 1..Len(response.value) : \E j \in 1..Len(response.value) :
           response.value[i].createdAt > response.value[j].createdAt

\* the stored properties whose field f lies within the bounds given: lo and
\* hi are <<>> when the bound is not supplied, <<x>> when it is x
InRange(f, lo, hi) ==
    {d \in properties :
        /\ lo # << >> => d[f] >= lo[1]
        /\ hi # << >> => d[f] <= hi[1]}

\* the bound a PropertySearch gives in field b, and the one a query string gives
BoundOf(search, b) == IF Has(search, b) THEN <<search[b]>> ELSE << >>
QueryBoundOf(query, b) ==
    IF Has(query, b) THEN <<NumeralTable[query[b]]>> ELSE << >>

\* the search gives numerals in the bounds of one dimension and nothing else
OnlyBounds(req, lo, hi) == DOMAIN req # {} /\ DOMAIN req \subseteq {lo, hi}
NumeralBounds(query) == \A b \in DOMAIN query : query[b] \in DOMAIN NumeralTable

RangeClaim(f, lo, hi) ==
    /\ (IsStorageSearch /\ OnlyBounds(response.req, lo, hi)) =>
           HoldsExactly(response.value,
                        InRange(f, BoundOf(response.req, lo), BoundOf(response.req, hi)))
    /\ (IsRouteSearch /\ OnlyBounds(response.req, lo, hi)
          /\ NumeralBounds(response.req)) =>
           HoldsExactly(response.value,
                        InRange(f, QueryBoundOf(response.req, lo),
                                QueryBoundOf(response.req, hi)))
    /\ (IsStorageSearch \/ IsRouteSearch) =>
           LET search == IF IsStorageSearch THEN response.req ELSE response.search
           IN  Elements(response.value) \subseteq
                   InRange(f, BoundOf(search, lo), BoundOf(search, hi))

\* C2: for price and for size, a search that gives both bounds returns
\* exactly the stored properties within them, one that gives only the lower
\* (upper) bound exactly those at or above (below) it, for every bound
\* value, 0 included, at the storage call and through the search route; and
\* whatever else a search asks, no result lies outside its bounds.
C2_RangeBounds ==
    /\ RangeClaim("price", "minPrice", "maxPrice")
    /\ RangeClaim("size", "minSize", "maxSize")

\* the route served an upper price bound of 0 with a stored property above it
\* and one at it
C2_Witness ==
    /\ IsRouteSearch
    /\ DOMAIN response.req = {"maxPrice"} /\ response.req.maxPrice = "0"
    /\ Len(response.value) = 1
    /\ \E d \in properties : d.price > 0

\* the bedrooms value a search asks for
BedroomsAsked ==
    IF IsStorageSearch THEN response.req.bedrooms
    ELSE NumeralTable[response.req.bedrooms]

\* C3: a search that gives bedrooms = N, N >= 0 and N = 0 included, returns
\* exactly the stored properties that have a bedrooms value >= N.
C3_BedroomsAtLeast ==
    ((IsStorageSearch \/ IsRouteSearch) /\ DOMAIN response.req = {"bedrooms"}) =>
        HoldsExactly(response.value,
                     {d \in properties : Has(d, "bedrooms") /\ d.bedrooms >= BedroomsAsked})

\* what the claim asks of a stored document for a field present in the search
FieldSatisfied(d, search, f) ==
    CASE f = "minPrice" -> d.price >= search[f]
      [] f = "maxPrice" -> d.price <= search[f]
      [] f = "minSize"  -> d.size >= search[f]
      [] f = "maxSize"  -> d.size <= search[f]
      [] f = "bedrooms" -> Has(d, f) /\ d[f] >= search[f]
      [] OTHER          -> Has(d, f) /\ d[f] = search[f]

\* C4: searchProperties returns exactly the stored properties that satisfy
\* every field present in the search: city, area, neighborhood, type and
\* isRental by equality, price and size by range, bedrooms by at-least; an
\* absent field constrains nothing.
C4_AllPresentFields ==
    IsStorageSearch =>
        HoldsExactly(response.value,
                     {d \in properties :
                         \A f \in DOMAIN response.req :
                             FieldSatisfied(d, response.req, f)})


-----------------------------------------------------------------------------
(* server/routes.ts: sessions and the admin gate *)

\* InsertUser values given to storage.createUser by a caller of IStorage
\* other than seedData (no route creates a user)
UserInputs ==
    { [username |-> "manager", password |-> "secret12", name |-> "Manager",
       role |-> "admin", email |-> "manager@altakhim.com"] }

\* storage.createUser(insertUser)
StorageCreateUser(insertUser) ==
    /\ Idle
    /\ LET r == createUser(users, insertUser, oidCounter + 1, now)
       IN  /\ ~r.threw
           /\ users' = r.coll
           /\ oidCounter' = oidCounter + 1
    /\ UNCHANGED <<properties, now, sessionUserId, writes, response>>
    /\ UNCHANGED <<feedbackVars, bootVars, previous, client>>

\* the length of the strings that login requests carry
StrLen(s) ==
    CASE s = "aqarpanel" -> 9 [] s = "Mm345" -> 5 [] s = "manager" -> 7
      [] s = "secret12" -> 8 [] s = "wrong-pass" -> 10 [] s = "nobody" -> 6
      [] s = "clerk" -> 5 [] s = "clerkpw1" -> 8 [] s = "abc" -> 3

\* loginSchema.parse(body)
loginParse(body) ==
    IF ~Has(body, "username") \/ ~Has(body, "password")
    THEN [ok |-> FALSE, message |-> "Required"]
    ELSE IF StrLen(body.username) < 3
    THEN [ok |-> FALSE, message |-> "username must be at least 3 characters"]
    ELSE IF StrLen(body.password) < 6
    THEN [ok |-> FALSE, message |-> "password must be at least 6 characters"]
    ELSE [ok |-> TRUE, message |-> ""]

LoginInputs ==
    { [username |-> "aqarpanel", password |-> "Mm345"],
      [username |-> "manager", password |-> "secret12"],
      [username |-> "manager", password |-> "wrong-pass"],
      [username |-> "nobody", password |-> "secret12"] }

\* the comparison left out: any password is taken
PasswordMatchesAny(user, password) == TRUE

\* user.password !== data.password
PasswordMatches(user, password) == user.password = password

\* app.post("/api/login")
PostLogin(body) ==
    /\ Routed
    /\ LET parsed == loginParse(body)
           user == getUserByUsername(users, body.username)
       IN  IF ~parsed.ok
           THEN /\ response' = [op |-> "POST /api/login", body |-> body, status |-> 400]
                /\ UNCHANGED sessionUserId
           ELSE IF ~user.found \/ ~PasswordMatches(user.value, body.password)
           THEN /\ response' = [op |-> "POST /api/login", body |-> body, status |-> 401]
                /\ UNCHANGED sessionUserId
           ELSE /\ sessionUserId' = OidToString(user.value._id)
                /\ response' = [op |-> "POST /api/login", body |-> body, status |-> 200]
    /\ UNCHANGED <<users, properties, oidCounter, now, writes>>
    /\ UNCHANGED <<feedbackVars, bootVars, previous, client>>

\* app.post("/api/logout"): req.session.destroy
PostLogout ==
    /\ Routed
    /\ sessionUserId' = NoSession
    /\ response' = [op |-> "POST /api/logout", status |-> 200]
    /\ UNCHANGED <<users, properties, oidCounter, now, writes>>
    /\ UNCHANGED <<feedbackVars, bootVars, previous, client>>

\* the gate with the role test left out, as isAuthenticated is
isAdminSessionOnly == IF sessionUserId = NoSession THEN 401 ELSE 0

\* the gate with the test for a missing user left out
isAdminMissingUserPasses ==
    IF sessionUserId = NoSession THEN 401
    ELSE LET user == getUser(users, sessionUserId)
         IN  IF user.found /\ user.value.role # "admin" THEN 403 ELSE 0

\* the isAdmin middleware: 0 when it calls next(), else the status it sends
isAdmin ==
    IF sessionUserId = NoSession THEN 401
    ELSE LET user == getUser(users, sessionUserId)
         IN  IF ~user.found \/ user.value.role # "admin" THEN 403 ELSE 0

-----------------------------------------------------------------------------
(* server/routes.ts: the property routes *)

\* res.json(property): the _id is sent in its hex form
ToJson(doc) == Spread(doc, [_id |-> OidToString(doc._id)])

\* a served request: the storage call it made, if any (called), whether that
\* call threw, and what it returned
Served(op, id, body, status, called, threw, value) ==
    [op |-> op, id |-> id, body |-> body, status |-> status,
     called |-> called, threw |-> threw, value |-> value]

\* app.get("/api/properties/:id")
GetProperty(id) ==
    /\ Routed
    /\ LET r == getProperty(properties, id)
           status == IF r.threw THEN 500 ELSE IF ~r.found THEN 404 ELSE 200
       IN  response' = Served("GET /api/properties/:id", id, EmptyObj, status,
                              TRUE, r.threw,
                              IF r.found THEN ToJson(r.value) ELSE EmptyObj)
    /\ UNCHANGED <<users, properties, oidCounter, now, sessionUserId, writes>>
    /\ UNCHANGED <<feedbackVars, bootVars, previous, client>>

\* draws of Math.random(), each given by u, the integer part of its product
\* with 90000: the least, the greatest, and one between
RandomDraws == {0, 2345, 89999}

\* Math.floor(10000 + Math.random() * 90000)
RandomSuffix(u) == 10000 + u

\* the template literal `SA-${n}` for the suffixes the draws give
FormatCode(n) ==
    CASE n = 10000 -> "SA-10000" [] n = 12345 -> "SA-12345" [] n = 99999 -> "SA-99999"

\* request bodies of POST /api/properties
BaseBody ==
    [title |-> "listing", description |-> "text", type |-> "villa",
     price |-> 500000, city |-> "Riyadh", neighborhood |-> "Hay AlMalqa",
     address |-> "street", size |-> 300, images |-> <<"img1">>,
     propertyCode |-> "SA-20001"]

PostBodies ==
    { BaseBody,
      Without(BaseBody, {"propertyCode"}),
      Spread(BaseBody, [propertyCode |-> ""]),
      Spread(BaseBody, [propertyCode |-> "SA-12345"]),
      Spread(BaseBody, [images |-> << >>]),
      Without(BaseBody, {"images"}),
      Spread(BaseBody, [_id |-> "650000000000000000000002", createdAt |-> 7,
                        bedrooms |-> 2]) }

\* app.post("/api/properties"), u the draw of Math.random()
PostProperty(body, u) ==
    /\ Routed
    /\ LET op == "POST /api/properties"
           parsed == ZodParse(insertPropertySchema, body, FALSE)
           propertyData ==
               IF ~TruthyStr(parsed.data.propertyCode)
               THEN Spread(parsed.data, [propertyCode |-> FormatCode(RandomSuffix(u))])
               ELSE parsed.data
           r == createProperty(properties, propertyData, oidCounter + 1, now)
       IN  IF isAdmin # 0
           THEN /\ response' = Served(op, "", body, isAdmin, FALSE, FALSE, EmptyObj)
                /\ UNCHANGED <<properties, oidCounter, writes>>
           ELSE IF ~parsed.ok
           THEN /\ response' = Served(op, "", body, 400, FALSE, FALSE, EmptyObj)
                /\ UNCHANGED <<properties, oidCounter, writes>>
           ELSE IF r.threw
           THEN /\ response' = Served(op, "", body, 500, TRUE, TRUE, EmptyObj)
                /\ UNCHANGED <<properties, oidCounter, writes>>
           ELSE /\ writes < MaxWrites
                /\ properties' = r.coll
                /\ oidCounter' = oidCounter + 1
                /\ writes' = writes + 1
                /\ response' = Served(op, "", body, 201, TRUE, FALSE, ToJson(r.value))
    /\ UNCHANGED <<users, now, sessionUserId>>
    /\ UNCHANGED <<feedbackVars, bootVars, previous, client>>

\* request bodies of PUT /api/properties/:id
PutBodies ==
    { EmptyObj,
      [images |-> << >>],
      [images |-> <<"img1", "img2">>, price |-> 90000],
      [propertyCode |-> "SA-12346"],
      [propertyCode |-> "SA-30000"],
      [_id |-> "65000000000000000000000b", createdAt |-> 7, bedrooms |-> 1] }

\* app.put("/api/properties/:id")
PutProperty(id, body) ==
    /\ Routed
    /\ LET op == "PUT /api/properties/:id"
           parsed == ZodParse(insertPropertySchema, body, TRUE)
           r == updateProperty(properties, id, parsed.data)
       IN  IF isAdmin # 0
           THEN /\ response' = Served(op, id, body, isAdmin, FALSE, FALSE, EmptyObj)
                /\ UNCHANGED <<properties, writes>>
           ELSE IF ~parsed.ok
           THEN /\ response' = Served(op, id, body, 400, FALSE, FALSE, EmptyObj)
                /\ UNCHANGED <<properties, writes>>
           ELSE IF r.threw
           THEN /\ response' = Served(op, id, body, 500, TRUE, TRUE, EmptyObj)
                /\ UNCHANGED <<properties, writes>>
           ELSE IF ~r.found
           THEN /\ response' = Served(op, id, body, 404, TRUE, FALSE, EmptyObj)
                /\ UNCHANGED <<properties, writes>>
           ELSE /\ r.coll # properties => writes < MaxWrites
                /\ properties' = r.coll
                /\ writes' = IF r.coll # properties THEN writes + 1 ELSE writes
                /\ response' = Served(op, id, body, 200, TRUE, FALSE, ToJson(r.value))
    /\ UNCHANGED <<users, oidCounter, now, sessionUserId>>
    /\ UNCHANGED <<feedbackVars, bootVars, previous, client>>

\* app.delete("/api/properties/:id")
DeleteProperty(id) ==
    /\ Idle
    /\ LET op == "DELETE /api/properties/:id"
           r == deleteProperty(properties, id)
       IN  IF isAdmin # 0
           THEN /\ response' = Served(op, id, EmptyObj, isAdmin, FALSE, FALSE, FALSE)
                /\ UNCHANGED <<properties, writes>>
           ELSE IF r.threw
           THEN /\ response' = Served(op, id, EmptyObj, 500, TRUE, TRUE, FALSE)
                /\ UNCHANGED <<properties, writes>>
           ELSE IF ~r.value
           THEN /\ response' = Served(op, id, EmptyObj, 404, TRUE, FALSE, FALSE)
                /\ UNCHANGED <<properties, writes>>
           ELSE /\ writes < MaxWrites
                /\ properties' = r.coll
                /\ writes' = writes + 1
                /\ response' = Served(op, id, EmptyObj, 200, TRUE, FALSE, TRUE)
    /\ UNCHANGED <<users, oidCounter, now, sessionUserId>>
    /\ UNCHANGED <<feedbackVars, bootVars, previous, client>>

\* the requests of a client and the passing of time
Next ==
    \/ Tick
    \/ Receive
    \/ \E insertUser \in UserInputs : StorageCreateUser(insertUser)
    \/ \E body \in LoginInputs : PostLogin(body)
    \/ PostLogout
    \/ \E id \in PropertyIds : GetProperty(id)
    \/ \E body \in PostBodies : \E u \in RandomDraws : PostProperty(body, u)
    \/ \E id \in PropertyIds : \E body \in PutBodies : PutProperty(id, body)
    \/ \E id \in PropertyIds : DeleteProperty(id)

Spec == Init /\ [][Next]_vars


-----------------------------------------------------------------------------
(* Properties of the property routes *)

IsGet == response.op = "GET /api/properties/:id"
IsPost == response.op = "POST /api/properties"
IsPut == response.op = "PUT /api/properties/:id"
IsDelete == response.op = "DELETE /api/properties/:id"

\* the request passed the isAdmin middleware
PassedGate == response.status \notin {401, 403}

\* the stored properties whose id, in hex form, is the string id
WithId(coll, id) == {d \in coll : OidToString(d._id) = id}

\* C5: getProperty(id) and GET /api/properties/:id give the absence marker
\* (undefined, 404) when id matches no property, whether it is malformed or
\* well-formed, and raise no error (no exception, no 500).
C5_GetAbsentIsNotFound ==
    IsGet =>
        /\ ~response.threw
        /\ response.status # 500
        /\ WithId(properties, response.id) = {} => response.status = 404

\* C6: deleteProperty(id) returns true and removes exactly the property with
\* that id when it exists, leaving the others unchanged; when no property
\* has the id it returns false, raises no error and changes nothing.
C6_DeleteClaim ==
    [][(Idle /\ IsDelete' /\ PassedGate') =>
          LET hit == WithId(properties, response'.id)
          IN  IF hit # {}
              THEN /\ response'.value = TRUE
                   /\ properties' = properties \ hit
              ELSE /\ response'.value = FALSE
                   /\ ~response'.threw
                   /\ response'.status = 404
                   /\ properties' = properties]_vars

\* the fields of the schema that a request body supplies
Supplied(body) == [f \in (DOMAIN body) \cap SchemaNames(insertPropertySchema) |-> body[f]]

\* C7: an update of an existing property sets exactly the supplied fields and
\* leaves every other field, _id and createdAt included, and every other
\* property unchanged; an update of an id that matches no property returns
\* the absence marker (404) and changes nothing.
C7_UpdateClaim ==
    [][(Idle /\ IsPut' /\ PassedGate' /\ response'.status # 400) =>
          LET hit == WithId(properties, response'.id)
          IN  IF hit # {}
              THEN LET old == CHOOSE d \in hit : TRUE
                   IN  /\ response'.status = 200 =>
                              properties' = (properties \ {old})
                                  \cup {Spread(old, Supplied(response'.body))}
                       /\ {<<d._id, d.createdAt>> : d \in properties'}
                              = {<<d._id, d.createdAt>> : d \in properties}
              ELSE /\ response'.status = 404
                   /\ properties' = properties]_vars

\* every stored property has at least one image
ImagesNonEmpty(coll) == \A d \in coll : Len(d.images) >= 1

\* the request carries an empty images list
EmptyImages(resp) == Has(resp.body, "images") /\ resp.body.images = << >>

\* C8: every stored property has at least one image in every state reached
\* through create, update and delete requests, and a POST, or a PUT that
\* supplies images, with an empty images list is answered 400 and stores or
\* changes nothing.
C8_ImagesNonEmpty ==
    /\ ImagesNonEmpty(properties)
    /\ [][/\ ImagesNonEmpty(properties')
          /\ (Idle /\ (IsPost' \/ IsPut') /\ PassedGate' /\ EmptyImages(response')) =>
                 (response'.status = 400 /\ properties' = properties)]_vars

\* an admin's PUT with an empty images list was answered 400, after a
\* property had been created through the API
C8_Witness ==
    /\ IsPut /\ EmptyImages(response) /\ response.status = 400
    /\ WithId(properties, response.id) # {}
    /\ writes > 0

\* C9: no two stored properties have the same propertyCode.
C9_PropertyCodeUnique ==
    \A d \in properties : \A e \in properties :
        d._id # e._id => d.propertyCode # e.propertyCode

\* a request that would have stored a second property with a code already
\* held was refused: an update of the code, or a create with a generated code
C9_Witness ==
    \/ IsPut /\ response.status = 500 /\ Has(response.body, "propertyCode")
          /\ \E d \in properties : d.propertyCode = response.body.propertyCode
    \/ IsPost /\ response.status = 500 /\ Has(response.body, "propertyCode")
          /\ response.body.propertyCode = ""

\* codes of the form SA-ddddd with ddddd in 10000..99999
GeneratedForm == {FormatCode(RandomSuffix(u)) : u \in RandomDraws}

\* C10: an admin's POST /api/properties whose body is otherwise valid and
\* does not supply propertyCode is answered 201 and stores the property with
\* a generated code SA-ddddd.
C10_GeneratesCode ==
    (/\ IsPost /\ PassedGate
     /\ ~Has(response.body, "propertyCode")
     /\ ZodParse(insertPropertySchema,
                 Spread(response.body, [propertyCode |-> "SA-00000"]), FALSE).ok) =>
        /\ response.status = 201
        /\ response.value.propertyCode \in GeneratedForm
        /\ \E d \in properties : ToJson(d) = response.value



-----------------------------------------------------------------------------
(* server/routes.ts: the testimonial and contact routes *)

\* res.json(array)
ToJsonAll(arr) == [i \in 1..Len(arr) |-> ToJson(arr[i])]

\* request bodies of POST /api/testimonials: a valid one, one that also
\* carries fields the schema does not declare, and one with a rating of 0
TestimonialBody ==
    [name |-> "Visitor", location |-> "Riyadh", message |-> "great", rating |-> 5]

TestimonialBodies ==
    { TestimonialBody,
      Spread(TestimonialBody, [isApproved |-> TRUE, createdAt |-> 7,
                               _id |-> "650000000000000000000005"]),
      Spread(TestimonialBody, [rating |-> 0]) }

\* app.post("/api/testimonials")
PostTestimonial(body) ==
    /\ Routed
    /\ LET op == "POST /api/testimonials"
           parsed == ZodParse(insertTestimonialSchema, body, FALSE)
           r == createTestimonial(testimonials, parsed.data, oidCounter + 1, now)
       IN  IF ~parsed.ok
           THEN /\ response' = Served(op, "", body, 400, FALSE, FALSE, EmptyObj)
                /\ UNCHANGED <<testimonials, oidCounter, writes>>
           ELSE /\ writes < MaxSubmissions
                /\ testimonials' = r.coll
                /\ oidCounter' = oidCounter + 1
                /\ writes' = writes + 1
                /\ response' = Served(op, OidToString(oidCounter + 1), body, 201,
                                      TRUE, FALSE, EmptyObj)
    /\ UNCHANGED <<users, properties, now, sessionUserId, contactMessages,
                   bootVars, previous, client>>

\* app.get("/api/testimonials")
GetTestimonials ==
    /\ Routed
    /\ \E arr \in getApprovedTestimonials(testimonials) :
           response' = Served("GET /api/testimonials", "", EmptyObj, 200,
                              TRUE, FALSE, ToJsonAll(arr))
    /\ UNCHANGED <<users, properties, oidCounter, now, sessionUserId, writes,
                   feedbackVars, bootVars, previous, client>>

\* app.get("/api/admin/testimonials")
GetAdminTestimonials ==
    /\ Routed
    /\ LET op == "GET /api/admin/testimonials"
       IN  IF isAdmin # 0
           THEN response' = Served(op, "", EmptyObj, isAdmin, FALSE, FALSE, << >>)
           ELSE \E arr \in getAllTestimonials(testimonials) :
                    response' = Served(op, "", EmptyObj, 200, TRUE, FALSE, ToJsonAll(arr))
    /\ UNCHANGED <<users, properties, oidCounter, now, sessionUserId, writes,
                   feedbackVars, bootVars, previous, client>>

\* ids a caller may name in the testimonial routes
TestimonialIds ==
    {OidToString(d._id) : d \in testimonials} \cup {UnusedId} \cup MalformedIds

\* app.post("/api/admin/testimonials/:id/approve")
PostApprove(id) ==
    /\ Routed
    /\ LET op == "POST /api/admin/testimonials/:id/approve"
           r == approveTestimonial(testimonials, id)
       IN  IF isAdmin # 0
           THEN /\ response' = Served(op, id, EmptyObj, isAdmin, FALSE, FALSE, FALSE)
                /\ UNCHANGED testimonials
           ELSE IF r.threw
           THEN /\ response' = Served(op, id, EmptyObj, 500, TRUE, TRUE, FALSE)
                /\ UNCHANGED testimonials
           ELSE /\ testimonials' = r.coll
                /\ response' = Served(op, id, EmptyObj, IF r.value THEN 200 ELSE 404,
                                      TRUE, FALSE, r.value)
    /\ UNCHANGED <<users, properties, oidCounter, now, sessionUserId, writes,
                   contactMessages, bootVars, previous, client>>

\* request bodies of POST /api/contact: a valid one, one that also carries
\* fields the schema does not declare, and one whose email is not an address
ContactBody ==
    [name |-> "Visitor", email |-> "visitor@example.sa", subject |-> "viewing",
     message |-> "please call"]

ContactBodies ==
    { ContactBody,
      Spread(ContactBody, [phone |-> "+966500000001", isRead |-> TRUE]),
      Spread(ContactBody, [email |-> "not-an-email"]) }

\* app.post("/api/contact")
PostContact(body) ==
    /\ Routed
    /\ LET op == "POST /api/contact"
           parsed == ZodParse(insertContactMessageSchema, body, FALSE)
           r == createContactMessage(contactMessages, parsed.data, oidCounter + 1, now)
       IN  IF ~parsed.ok
           THEN /\ response' = Served(op, "", body, 400, FALSE, FALSE, EmptyObj)
                /\ UNCHANGED <<contactMessages, oidCounter, writes>>
           ELSE /\ writes < MaxSubmissions
                /\ contactMessages' = r.coll
                /\ oidCounter' = oidCounter + 1
                /\ writes' = writes + 1
                /\ response' = Served(op, OidToString(oidCounter + 1), body, 201,
                                      TRUE, FALSE, EmptyObj)
    /\ UNCHANGED <<users, properties, now, sessionUserId, testimonials,
                   bootVars, previous, client>>

\* app.get("/api/contact")
GetContact ==
    /\ Routed
    /\ LET op == "GET /api/contact"
       IN  IF isAdmin # 0
           THEN response' = Served(op, "", EmptyObj, isAdmin, FALSE, FALSE, << >>)
           ELSE \E arr \in getAllContactMessages(contactMessages) :
                    response' = Served(op, "", EmptyObj, 200, TRUE, FALSE, ToJsonAll(arr))
    /\ UNCHANGED <<users, properties, oidCounter, now, sessionUserId, writes,
                   feedbackVars, bootVars, previous, client>>

\* ids a caller may name in the contact routes
ContactIds ==
    {OidToString(d._id) : d \in contactMessages} \cup {UnusedId} \cup MalformedIds

\* app.post("/api/contact/:id/read")
PostContactRead(id) ==
    /\ Routed
    /\ LET op == "POST /api/contact/:id/read"
           r == markContactMessageAsRead(contactMessages, id)
       IN  IF isAdmin # 0
           THEN /\ response' = Served(op, id, EmptyObj, isAdmin, FALSE, FALSE, FALSE)
                /\ UNCHANGED contactMessages
           ELSE IF r.threw
           THEN /\ response' = Served(op, id, EmptyObj, 500, TRUE, TRUE, FALSE)
                /\ UNCHANGED contactMessages
           ELSE /\ contactMessages' = r.coll
                /\ response' = Served(op, id, EmptyObj, IF r.value THEN 200 ELSE 404,
                                      TRUE, FALSE, r.value)
    /\ UNCHANGED <<users, properties, oidCounter, now, sessionUserId, writes,
                   testimonials, bootVars, previous, client>>

\* the login of the administrator that storage.createUser added
ManagerLogin == [username |-> "manager", password |-> "secret12"]

\* the requests of visitors and of the administrator about testimonials and
\* contact messages
FeedbackNext ==
    \/ Tick
    \/ Receive
    \/ \E insertUser \in UserInputs : StorageCreateUser(insertUser)
    \/ PostLogin(ManagerLogin)
    \/ PostLogout
    \/ \E body \in TestimonialBodies : PostTestimonial(body)
    \/ GetTestimonials
    \/ GetAdminTestimonials
    \/ \E id \in TestimonialIds : PostApprove(id)
    \/ \E body \in ContactBodies : PostContact(body)
    \/ GetContact
    \/ \E id \in ContactIds : PostContactRead(id)

FeedbackSpec == Init /\ [][FeedbackNext]_vars


-----------------------------------------------------------------------------
(* Sessions and the admin gate, with users of both roles *)

\* a second user, without the admin role, that storage.createUser added
ClerkUser ==
    [username |-> "clerk", password |-> "clerkpw1", name |-> "Clerk",
     role |-> "user", email |-> "clerk@altakhim.com"]

ManagerUser == CHOOSE insertUser \in UserInputs : insertUser.username = "manager"

\* the state after initialize() has seeded an empty store and
\* storage.createUser has added the manager and the clerk
AuthInit ==
    LET times == [i \in 1..Len(sampleProperties) |-> 0]
        seeded == createUser({}, SeedAdmin, 1, 0).coll
        withManager == createUser(seeded, ManagerUser, SeedOids + 1, 0).coll
    IN  /\ users = createUser(withManager, ClerkUser, SeedOids + 2, 0).coll
        /\ properties = SeedProperties({}, 1, times)
        /\ oidCounter = SeedOids + 2
        /\ now = 0
        /\ sessionUserId = NoSession
        /\ writes = 0
        /\ response = NoResponse
        /\ testimonials = SeedTestimonials({}, 1, 0)
        /\ contactMessages = {}
        /\ initialized = TRUE
        /\ registered = TRUE
        /\ collections = TRUE
        /\ calls = [c \in Calls |-> IF c = 1 THEN Returned ELSE NotCalled]
        /\ previous = NoResponse
        /\ client = NoClient

\* another client of the database changes the role of a stored user
StoreDemoteUser(oid) ==
    /\ Idle
    /\ \E d \in ById(users, oid) :
           /\ d.role = "admin"
           /\ users' = (users \ {d}) \cup {Spread(d, [role |-> "user"])}
    /\ UNCHANGED <<properties, oidCounter, now, sessionUserId, writes, response,
                   feedbackVars, bootVars, previous, client>>

\* another client of the database deletes a stored user
StoreRemoveUser(oid) ==
    /\ Idle
    /\ ById(users, oid) # {}
    /\ users' = users \ ById(users, oid)
    /\ UNCHANGED <<properties, oidCounter, now, sessionUserId, writes, response,
                   feedbackVars, bootVars, previous, client>>

\* the users that hold or held a session: those storage.createUser added
SessionUsers == {d._id : d \in {u \in users : u._id > SeedOids}}

\* the routes registered with the isAdmin middleware
GatedOps ==
    { "POST /api/properties", "PUT /api/properties/:id", "DELETE /api/properties/:id",
      "GET /api/contact", "POST /api/contact/:id/read",
      "GET /api/admin/testimonials", "POST /api/admin/testimonials/:id/approve" }

\* the client reads the response; the outcome of a login or of a request to
\* an admin route is remembered until the next response is read
ReceiveAndNote ==
    /\ ~Idle
    /\ previous' = IF response.op = "POST /api/login" THEN response
                   ELSE IF response.op \in GatedOps
                   THEN [op |-> "admin route", status |-> response.status]
                   ELSE NoResponse
    /\ response' = NoResponse
    /\ UNCHANGED <<users, properties, oidCounter, now, sessionUserId, writes,
                   feedbackVars, bootVars, client>>

AuthLoginInputs ==
    { ManagerLogin,
      [username |-> "manager", password |-> "wrong-pass"],
      [username |-> "manager", password |-> "abc"],
      [username |-> "clerk", password |-> "clerkpw1"],
      [username |-> "nobody", password |-> "secret12"] }

AuthPutBodies == { [images |-> <<"img1", "img2">>, price |-> 90000] }

\* logins, the admin routes, the public submissions they act on, and changes
\* of the stored users
AuthNext ==
    \/ ReceiveAndNote
    \/ \E oid \in SessionUsers : StoreDemoteUser(oid)
    \/ \E oid \in SessionUsers : StoreRemoveUser(oid)
    \/ \E body \in AuthLoginInputs : PostLogin(body)
    \/ PostLogout
    \/ PostProperty(BaseBody, 0)
    \/ \E id \in PropertyIds : \E body \in AuthPutBodies : PutProperty(id, body)
    \/ \E id \in PropertyIds : DeleteProperty(id)
    \/ PostTestimonial(TestimonialBody)
    \/ GetAdminTestimonials
    \/ \E id \in TestimonialIds : PostApprove(id)
    \/ PostContact(ContactBody)
    \/ GetContact
    \/ \E id \in ContactIds : PostContactRead(id)

AuthSpec == AuthInit /\ [][AuthNext]_vars


-----------------------------------------------------------------------------
(* server/storage.ts: initialize() and seedData() step by step, and         *)
(* registerRoutes, which awaits the first initialize() call.  Each await of  *)
(* initialize() is a point where other calls may run and where the store     *)
(* may fail; the unique indexes exist before any call inserts, since every   *)
(* call creates them before it counts.                                       *)

\* a process starts on an empty database
BootInit ==
    /\ users = {}
    /\ properties = {}
    /\ testimonials = {}
    /\ contactMessages = {}
    /\ oidCounter = 0
    /\ now = 0
    /\ sessionUserId = NoSession
    /\ writes = 0
    /\ response = NoResponse
    /\ initialized = FALSE
    /\ registered = FALSE
    /\ collections = FALSE
    /\ calls = [c \in Calls |-> NotCalled]
    /\ previous = NoResponse
    /\ client = NoClient

\* what no step of initialize() changes
bootFrame == <<now, sessionUserId, writes, response, contactMessages, previous, client>>

\* what no step of initialize() changes but the one that follows connect()
bootKept == <<bootFrame, collections>>

\* the call is suspended at one of the awaits of initialize()
InFlight(call) == call.at \in {"connect", "indexes", "count", "seed"}

\* initialize() is called: it returns at once when the flag is set, else it
\* starts to connect
InitializeCall(c) ==
    /\ calls[c] = NotCalled
    /\ c > 1 => calls[1] # NotCalled
    /\ calls' = [calls EXCEPT ![c] =
                    IF initialized THEN At("returned", 0, -1, 0)
                    ELSE At("connect", 0, -1, 0)]
    /\ UNCHANGED <<users, properties, testimonials, oidCounter, initialized,
                   registered, bootKept>>

\* await this.client.connect() resolves: db and the four collection fields
\* are assigned and the first createIndex is issued
Connected(c) ==
    /\ calls[c].at = "connect"
    /\ calls' = [calls EXCEPT ![c].at = "indexes"]
    /\ collections' = TRUE
    /\ UNCHANGED <<users, properties, testimonials, oidCounter, initialized,
                   registered, bootFrame>>

\* the createIndex calls resolve; countDocuments is issued
IndexesCreated(c) ==
    /\ calls[c].at = "indexes"
    /\ calls' = [calls EXCEPT ![c].at = "count"]
    /\ UNCHANGED <<users, properties, testimonials, oidCounter, initialized,
                   registered, bootKept>>

\* the test that is always true: seedData runs whatever the count
SeedsAlways(userCount) == TRUE

\* userCount === 0
SeedsWhen(userCount) == userCount = 0

\* countDocuments resolves: with no user seedData starts, else the flag is
\* set and the call returns
Counted(c) ==
    /\ calls[c].at = "count"
    /\ LET userCount == Cardinality(users)
       IN  IF SeedsWhen(userCount)
           THEN /\ calls' = [calls EXCEPT ![c] = At("seed", 0, userCount, 0)]
                /\ UNCHANGED initialized
           ELSE /\ calls' = [calls EXCEPT ![c] = At("returned", 0, userCount, 0)]
                /\ initialized' = TRUE
    /\ UNCHANGED <<users, properties, testimonials, oidCounter, registered, bootKept>>

\* the call's position after a step of seedData that did not throw: after
\* the last step the flag is set and the call returns
AfterSeedStep(call, created) ==
    At(IF call.step + 1 = SeedSteps THEN "returned" ELSE "seed",
       call.step + 1, call.userCount, created)

\* the next insert or update of seedData resolves, or rejects
SeedStep(c) ==
    /\ calls[c].at = "seed"
    /\ LET call == calls[c]
           k == call.step
           oid == oidCounter + 1
           threw == At("threw", k, call.userCount, call.created)
       IN  IF k = 0
           THEN LET r == createUser(users, SeedAdmin, oid, now)
                IN  /\ users' = r.coll
                    /\ oidCounter' = IF r.threw THEN oidCounter ELSE oid
                    /\ calls' = [calls EXCEPT ![c] =
                                    IF r.threw THEN threw ELSE AfterSeedStep(call, 0)]
                    /\ UNCHANGED <<properties, testimonials, initialized>>
           ELSE IF k <= Len(sampleProperties)
           THEN LET r == createProperty(properties, sampleProperties[k], oid, now)
                IN  /\ properties' = r.coll
                    /\ oidCounter' = IF r.threw THEN oidCounter ELSE oid
                    /\ calls' = [calls EXCEPT ![c] =
                                    IF r.threw THEN threw ELSE AfterSeedStep(call, 0)]
                    /\ UNCHANGED <<users, testimonials, initialized>>
           ELSE LET j == (k - 1 - Len(sampleProperties)) \div 2 + 1
                    creating == (k - 1 - Len(sampleProperties)) % 2 = 0
                IN  IF creating
                    THEN /\ testimonials' =
                                createTestimonial(testimonials, sampleTestimonials[j],
                                                  oid, now).coll
                         /\ oidCounter' = oid
                         /\ calls' = [calls EXCEPT ![c] = AfterSeedStep(call, oid)]
                         /\ UNCHANGED <<users, properties, initialized>>
                    ELSE /\ testimonials' =
                                approveTestimonial(testimonials,
                                                   OidToString(call.created)).coll
                         /\ calls' = [calls EXCEPT ![c] = AfterSeedStep(call, call.created)]
                         /\ initialized' = (initialized \/ k + 1 = SeedSteps)
                         /\ UNCHANGED <<users, properties, oidCounter>>
    /\ UNCHANGED <<registered, bootKept>>

\* the store is unreachable or an operation fails: the awaited promise
\* rejects, the catch block logs and rethrows
InitializeThrows(c) ==
    /\ InFlight(calls[c])
    /\ calls' = [calls EXCEPT ![c].at = "threw"]
    /\ UNCHANGED <<users, properties, testimonials, oidCounter, initialized,
                   registered, bootKept>>

\* the routes registered without awaiting initialize()
RegisterRoutesUnawaited ==
    /\ ~registered
    /\ calls[1] # NotCalled
    /\ registered' = TRUE
    /\ UNCHANGED <<users, properties, testimonials, oidCounter, initialized,
                   calls, bootKept>>

\* registerRoutes: await storage.initialize() has returned, the routes are
\* registered; when it throws, registerRoutes rejects before any route
RegisterRoutes ==
    /\ ~registered
    /\ calls[1].at = "returned"
    /\ registered' = TRUE
    /\ UNCHANGED <<users, properties, testimonials, oidCounter, initialized,
                   calls, bootKept>>

\* the process exits and a new process starts on the same database, with a
\* new MongoStorage instance and an empty session store
Restart ==
    /\ calls[1] # NotCalled
    /\ initialized' = FALSE
    /\ registered' = FALSE
    /\ collections' = FALSE
    /\ calls' = [c \in Calls |-> NotCalled]
    /\ sessionUserId' = NoSession
    /\ response' = NoResponse
    /\ UNCHANGED <<users, properties, testimonials, contactMessages, oidCounter,
                   now, writes, previous, client>>

\* start-up, restarts, and requests that read
BootNext ==
    \/ Tick
    \/ Receive
    \/ \E c \in Calls : InitializeCall(c)
    \/ \E c \in Calls : Connected(c)
    \/ \E c \in Calls : IndexesCreated(c)
    \/ \E c \in Calls : Counted(c)
    \/ \E c \in Calls : SeedStep(c)
    \/ \E c \in Calls : InitializeThrows(c)
    \/ RegisterRoutes
    \/ Restart
    \/ \E id \in PropertyIds : GetProperty(id)
    \/ GetTestimonials

BootSpec == BootInit /\ [][BootNext]_vars


-----------------------------------------------------------------------------
(* getFeaturedProperties and GET /api/properties/featured *)

\* InsertProperty values given to createProperty: one that is sold, one that
\* is rented, one that is available
FeaturedInputs ==
    { Spread(NewProperty("villa", 900000, FALSE, "Riyadh", 300, "SA-20003"),
             [status |-> "sold"]),
      Spread(NewProperty("apartment", 40000, TRUE, "Jeddah", 120, "SA-20004"),
             [status |-> "rented"]),
      NewProperty("villa", 700000, FALSE, "Riyadh", 250, "SA-20005") }

\* the limit argument: left out, or a number
LimitInputs == {<< >>, <<0>>, <<1>>, <<2>>, <<6>>}

\* storage.getFeaturedProperties(limit)
StorageFeatured(limit) ==
    /\ Idle
    /\ \E arr \in getFeaturedProperties(properties, limit) :
           response' = [op |-> "getFeaturedProperties", req |-> limit,
                        threw |-> FALSE, value |-> arr]
    /\ UNCHANGED <<users, properties, oidCounter, now, sessionUserId, writes,
                   feedbackVars, bootVars, previous, client>>

\* query strings of GET /api/properties/featured
LimitQueries ==
    {EmptyObj} \cup {Obj("limit", v) : v \in {"", "0", "1", "2", "6"}}

\* app.get("/api/properties/featured")
GetFeatured(query) ==
    /\ Routed
    /\ LET limit == IF Has(query, "limit") /\ TruthyStr(query.limit)
                    THEN parseInt(query.limit).n ELSE 6
       IN  \E arr \in getFeaturedProperties(properties, <<limit>>) :
               response' = [op |-> "GET /api/properties/featured", req |-> query,
                            status |-> 200, limit |-> limit, value |-> arr]
    /\ UNCHANGED <<users, properties, oidCounter, now, sessionUserId, writes,
                   feedbackVars, bootVars, previous, client>>

\* the storage calls that change the properties, and the featured list
FeaturedNext ==
    \/ Tick
    \/ Receive
    \/ \E insertProperty \in FeaturedInputs : StorageCreateProperty(insertProperty)
    \/ \E id \in PropertyIds : StorageDeleteProperty(id)
    \/ \E limit \in LimitInputs : StorageFeatured(limit)
    \/ \E query \in LimitQueries : GetFeatured(query)

FeaturedSpec == Init /\ [][FeaturedNext]_vars

IsStorageFeatured == response.op = "getFeaturedProperties"
IsRouteFeatured == response.op = "GET /api/properties/featured"

\* the N of a request for the featured list: 6 when no limit is given
LimitAsked ==
    IF IsStorageFeatured
    THEN IF response.req = << >> THEN 6 ELSE response.req[1]
    ELSE IF Has(response.req, "limit") /\ response.req.limit # ""
         THEN NumeralTable[response.req.limit] ELSE 6

Available == {d \in properties : d.status = "available"}

\* the array holds n of the available properties, none twice, newest first,
\* and none that is older than an available property it leaves out
NewestAvailable(arr, n) ==
    /\ Len(arr) = n
    /\ Cardinality(Elements(arr)) = n
    /\ Elements(arr) \subseteq Available
    /\ NewestFirst(arr)
    /\ \A d \in Available \ Elements(arr) : \A e \in Elements(arr) :
           e.createdAt >= d.createdAt

\* C20: getFeaturedProperties(N) and GET /api/properties/featured?limit=N
\* return, for every N >= 0, exactly min(N, number of available properties)
\* properties: the most recently created available ones, newest first, and
\* none with another status; N is 6 when no limit is given.
C20_FeaturedNewestN ==
    (IsStorageFeatured \/ IsRouteFeatured) =>
        NewestAvailable(response.value,
            IF LimitAsked <= Cardinality(Available)
            THEN LimitAsked ELSE Cardinality(Available))


-----------------------------------------------------------------------------
(* Properties of the testimonial and contact routes *)

IsPostTestimonial(resp) == resp.op = "POST /api/testimonials"
IsGetTestimonials(resp) == resp.op = "GET /api/testimonials"
IsPostApprove(resp) == resp.op = "POST /api/admin/testimonials/:id/approve"

\* the request was answered by the handler of an admin route, not by the gate
Admitted(resp) == resp.status \notin {401, 403}

\* the document of the collection whose id, in hex form, is id
DocWithId(coll, id) == {d \in coll : OidToString(d._id) = id}

\* C11: a testimonial submitted through POST /api/testimonials, whatever
\* fields its body carries, is stored with isApproved = false; a stored
\* testimonial becomes approved only by approveTestimonial on its id, and
\* stays stored and approved from then on; every GET /api/testimonials result
\* holds exactly the approved testimonials, so never one not yet approved.
C11_ApprovalGatesVisibility ==
    [][/\ (IsPostTestimonial(response') /\ response'.status = 201) =>
              \E t \in testimonials' :
                  /\ OidToString(t._id) = response'.id
                  /\ t.isApproved = FALSE
                  /\ t \notin testimonials
                  /\ testimonials' = testimonials \cup {t}
       /\ \A t \in testimonials' :
              (t.isApproved /\ ~\E u \in testimonials : u._id = t._id /\ u.isApproved) =>
                  /\ IsPostApprove(response') /\ response'.id = OidToString(t._id)
                  /\ \E u \in testimonials : u._id = t._id
       /\ (IsPostApprove(response') /\ Admitted(response') /\ ~response'.threw) =>
              \A t \in DocWithId(testimonials', response'.id) : t.isApproved
       /\ \A t \in testimonials : t.isApproved => t \in testimonials'
       /\ IsGetTestimonials(response') =>
              /\ HoldsExactly(response'.value,
                              {ToJson(t) : t \in {u \in testimonials' : u.isApproved}})
              /\ \A k \in 1..Len(response'.value) : response'.value[k].isApproved
      ]_vars

\* the public list shows a submitted testimonial that the administrator has
\* approved and leaves out one that is still waiting
C11_Witness ==
    /\ IsGetTestimonials(response)
    /\ \E k \in 1..Len(response.value) :
           /\ response.value[k].name = TestimonialBody.name
           /\ response.value[k].isApproved
    /\ \E t \in testimonials : ~t.isApproved

IsPostContact(resp) == resp.op = "POST /api/contact"
IsGetContact(resp) == resp.op = "GET /api/contact"
IsPostContactRead(resp) == resp.op = "POST /api/contact/:id/read"

\* C12: a contact message submitted through POST /api/contact is stored with
\* isRead = false and every admin fetch lists the stored messages as they
\* are; markContactMessageAsRead on its id sets isRead = true, nothing else
\* changes isRead, and a message that is read stays stored and read.
C12_ReadIsMonotone ==
    [][/\ (IsPostContact(response') /\ response'.status = 201) =>
              \E m \in contactMessages' :
                  /\ OidToString(m._id) = response'.id
                  /\ m.isRead = FALSE
                  /\ m \notin contactMessages
                  /\ contactMessages' = contactMessages \cup {m}
       /\ (IsGetContact(response') /\ Admitted(response')) =>
              /\ response'.status = 200
              /\ HoldsExactly(response'.value, {ToJson(m) : m \in contactMessages'})
       /\ (IsPostContactRead(response') /\ Admitted(response') /\ ~response'.threw) =>
              \A m \in DocWithId(contactMessages', response'.id) : m.isRead
       /\ \A m \in contactMessages' :
              (m.isRead /\ ~\E u \in contactMessages : u._id = m._id /\ u.isRead) =>
                  IsPostContactRead(response') /\ response'.id = OidToString(m._id)
       /\ \A m \in contactMessages : m.isRead => m \in contactMessages'
      ]_vars

\* the administrator's list shows one message that was marked read and one
\* that is still unread
C12_Witness ==
    /\ IsGetContact(response) /\ response.status = 200
    /\ \E k \in 1..Len(response.value) : response.value[k].isRead
    /\ \E k \in 1..Len(response.value) : ~response.value[k].isRead


-----------------------------------------------------------------------------
(* Properties of the sessions and of the admin gate *)

IsLogin(resp) == resp.op = "POST /api/login"
Gated(resp) == resp.op \in GatedOps

\* the body names a stored user and carries another password than that user's
WrongPassword(body) ==
    \E d \in users : d.username = body.username /\ d.password # body.password

\* C13: POST /api/login with the username of a stored user and any password
\* other than the stored one is answered 401 and leaves the client without a
\* session, and the admin-gated request the client makes next is answered 401.
C13_WrongPasswordIs401 ==
    [][/\ (IsLogin(response') /\ WrongPassword(response'.body)) =>
              (response'.status = 401 /\ sessionUserId' = NoSession)
       /\ (IsLogin(previous) /\ WrongPassword(previous.body) /\ Gated(response')) =>
              response'.status = 401
      ]_vars

\* C13 as amended: such a login is answered 401 when the password has at
\* least 6 characters and 400 when it is shorter, and in both cases leaves
\* session.userId as it was; when the client had no session, the admin-gated
\* request it makes next is answered 401.
C13_WrongPasswordLeavesSession ==
    [][/\ (IsLogin(response') /\ WrongPassword(response'.body)) =>
              /\ response'.status =
                     IF StrLen(response'.body.password) < 6 THEN 400 ELSE 401
              /\ sessionUserId' = sessionUserId
       /\ (/\ IsLogin(previous) /\ WrongPassword(previous.body)
           /\ sessionUserId = NoSession /\ Gated(response')) =>
              response'.status = 401
      ]_vars

\* an admin route answered 401 right after the manager's login with a wrong
\* password of sufficient length was answered 401
C13_Witness ==
    /\ Gated(response) /\ response.status = 401
    /\ IsLogin(previous) /\ previous.status = 401
    /\ previous.body = [username |-> "manager", password |-> "wrong-pass"]

\* the session's user is stored with the admin role
SessionIsAdmin ==
    \E d \in users : OidToString(d._id) = sessionUserId /\ d.role = "admin"

\* the four collections
store == <<users, properties, testimonials, contactMessages>>

\* C14: an admin-gated request is decided by the role the store holds for
\* the session's user when the request is made: with a session whose user is
\* no longer stored as admin, or no longer stored, it is answered 403 and
\* changes nothing, and it is admitted only when the user is stored as admin.
C14_RoleReadAtRequestTime ==
    [][Gated(response') =>
          /\ (sessionUserId # NoSession /\ ~SessionIsAdmin) =>
                 /\ response'.status = 403
                 /\ ~response'.called
                 /\ store' = store
          /\ Admitted(response') => SessionIsAdmin
      ]_vars

\* a session whose previous admin request was admitted is refused 403: the
\* user was demoted or deleted between the two requests
C14_Witness ==
    /\ Gated(response) /\ response.status = 403
    /\ previous.op = "admin route" /\ previous.status = 200
    /\ sessionUserId # NoSession

\* the ids of the approved testimonials and of the read contact messages
Approved(coll) == {d._id : d \in {t \in coll : t.isApproved}}
Read(coll) == {d._id : d \in {m \in coll : m.isRead}}

\* the response carries no data of the store
NoData(resp) ==
    CASE resp.op \in {"GET /api/contact", "GET /api/admin/testimonials"} ->
             resp.value = << >>
      [] resp.op \in {"DELETE /api/properties/:id", "POST /api/contact/:id/read",
                      "POST /api/admin/testimonials/:id/approve"} ->
             resp.value = FALSE
      [] OTHER -> resp.value = EmptyObj

\* C15: properties are created, updated and deleted, contact messages listed
\* and marked read, and testimonials approved and listed unfiltered only by
\* requests whose session maps to a stored admin; a request to one of these
\* routes is answered 401 without a session and 403 with the session of a
\* user who is not a stored admin, and then changes nothing and returns no
\* data of the store.
C15_AdminOnly ==
    [][/\ Gated(response') =>
              /\ sessionUserId = NoSession => response'.status = 401
              /\ (sessionUserId # NoSession /\ ~SessionIsAdmin) =>
                     response'.status = 403
              /\ SessionIsAdmin => Admitted(response')
              /\ ~Admitted(response') =>
                     /\ store' = store
                     /\ ~response'.called
                     /\ NoData(response')
       /\ (\/ properties' # properties
           \/ Approved(testimonials') # Approved(testimonials)
           \/ Read(contactMessages') # Read(contactMessages)) =>
              (Gated(response') /\ Admitted(response') /\ SessionIsAdmin)
      ]_vars

\* the clerk, logged in, was refused 403 by the route that marks a stored
\* contact message read
C15_Witness ==
    /\ response.op = "POST /api/contact/:id/read" /\ response.status = 403
    /\ DocWithId(contactMessages, response.id) # {}
    /\ \E d \in users : OidToString(d._id) = sessionUserId /\ d.username = "clerk"


-----------------------------------------------------------------------------
(* Properties of initialize(), seedData() and registerRoutes *)

\* C16: no route handler runs before initialize() has completed: the routes
\* are registered, and a request is answered, only when the initialize() call
\* of registerRoutes has returned and set the flag, and when that call throws
\* no route is registered.
C16_RoutesAfterInitialize ==
    /\ registered => (initialized /\ calls[1].at = "returned")
    /\ ~Idle => (registered /\ initialized)
    /\ calls[1].at = "threw" => ~registered

\* a request was answered from the seeded store, in a process whose second
\* initialize() call threw
C16_Witness ==
    /\ IsGet /\ response.status = 200
    /\ calls[1].userCount = 0
    /\ calls[2].at = "threw"

\* the calls that are past the test of the flag and have not returned
Working == {c \in Calls : InFlight(calls[c])}

\* C17: once initialize() has completed on an instance, a further call
\* returns without connecting, creating indexes, counting or seeding and
\* leaves the store unchanged, also when calls overlap: of the calls of an
\* instance at most one is ever connecting, creating indexes, counting or
\* seeding, and none is once the flag is set.
C17_InitializeIdempotent ==
    [][/\ \A c \in Calls :
              (initialized /\ calls[c] = NotCalled /\ calls'[c] # NotCalled) =>
                  (calls'[c].at = "returned" /\ store' = store)
       /\ Cardinality(Working') <= 1
       /\ initialized' => Working' = {}
      ]_vars

\* the seed documents in the store: the users with the seeded username, the
\* properties with a sample's code, the testimonials with a sample's name
SeedUserDocs == {d \in users : d.username = SeedAdmin.username}
SeedPropertyDocs(i) ==
    {d \in properties : d.propertyCode = sampleProperties[i].propertyCode}
SeedTestimonialDocs(i) ==
    {d \in testimonials : d.name = sampleTestimonials[i].name}

NoSeedDuplicates ==
    /\ Cardinality(SeedUserDocs) <= 1
    /\ \A i \in 1..Len(sampleProperties) : Cardinality(SeedPropertyDocs(i)) <= 1
    /\ \A i \in 1..Len(sampleTestimonials) : Cardinality(SeedTestimonialDocs(i)) <= 1

\* C18: a document is inserted by seedData only in a call that counted no
\* user, and, once the store holds a user, only in the call that inserted
\* that user itself; whatever initialize() calls are made, overlapping, after
\* a restart or after a call that failed part-way, no seeded user, property
\* or testimonial is stored twice.
C18_SeedOnlyWhenEmpty ==
    [][/\ store' # store =>
              \E c \in Calls :
                  /\ calls'[c] # calls[c]
                  /\ calls[c].at = "seed" /\ calls[c].userCount = 0
                  /\ users # {} => calls[c].step >= 1
       /\ \A c \in Calls :
              (calls[c].at = "count" /\ calls'[c].userCount > 0) =>
                  (calls'[c].at = "returned" /\ store' = store)
       /\ NoSeedDuplicates'
      ]_vars

\* of two overlapping calls that counted no user, one inserted the user and
\* then failed part-way, and the other inserted nothing and threw: the
\* store holds the user and not all of the samples
C18_Witness ==
    /\ calls[1].at = "threw" /\ calls[1].userCount = 0 /\ calls[1].step = 0
    /\ calls[2].at = "threw" /\ calls[2].step >= 1
    /\ Cardinality(users) = 1
    /\ Cardinality(properties) < Len(sampleProperties)

\* an initialize() call that found the store empty has seeded it and returned
SeededAndReturned ==
    \E c \in Calls :
        calls[c].at = "returned" /\ calls[c].userCount = 0 /\ calls[c].step = SeedSteps

\* C19: after a successful initialize() on an empty store the store holds
\* exactly one user, with role admin, the sample properties and the sample
\* testimonials, and exactly one of the testimonials is approved:
\* getApprovedTestimonials returns exactly one.
C19_SeededStore ==
    SeededAndReturned =>
        /\ Cardinality(users) = 1
        /\ \A d \in users : d.role = "admin"
        /\ Cardinality(properties) = Len(sampleProperties)
        /\ \A i \in 1..Len(sampleProperties) : Cardinality(SeedPropertyDocs(i)) = 1
        /\ Cardinality(testimonials) = Len(sampleTestimonials)
        /\ \A i \in 1..Len(sampleTestimonials) : Cardinality(SeedTestimonialDocs(i)) = 1
        /\ \A arr \in getApprovedTestimonials(testimonials) : Len(arr) = 1


-----------------------------------------------------------------------------
(* Room counts on the admin property routes *)

\* request bodies of POST /api/properties that carry room counts
RoomsPostBodies ==
    { Spread(BaseBody, [bedrooms |-> 2, bathrooms |-> 1]),
      Spread(BaseBody, [bedrooms |-> 0, propertyCode |-> "SA-20002"]),
      Spread(BaseBody, [bedrooms |-> -1, propertyCode |-> "SA-20003"]),
      Spread(BaseBody, [bathrooms |-> -2, propertyCode |-> "SA-20004"]),
      Spread(BaseBody, [price |-> -1, bedrooms |-> 2, propertyCode |-> "SA-20005"]) }

\* request bodies of PUT /api/properties/:id that carry room counts
RoomsPutBodies ==
    { [bedrooms |-> 4], [bedrooms |-> -1], [bathrooms |-> -2],
      [bathrooms |-> 0, size |-> -5] }

\* an administrator creating and updating properties with room counts
RoomsNext ==
    \/ Receive
    \/ PostLogin(ManagerLogin)
    \/ PostLogout
    \/ \E body \in RoomsPostBodies : PostProperty(body, 0)
    \/ \E id \in PropertyIds : \E body \in RoomsPutBodies : PutProperty(id, body)

RoomsSpec == AuthInit /\ [][RoomsNext]_vars

RoomFields == {"bedrooms", "bathrooms"}

\* the body gives a negative number for bedrooms or bathrooms
NegativeRooms(body) == \E f \in RoomFields : Has(body, f) /\ body[f] < 0

\* C21: the bedrooms and bathrooms of every stored property, when present,
\* are non-negative, and a create or update request admitted by the gate
\* whose body gives a negative value for either is answered 400.
C21_RoomsNonNegative ==
    /\ \A d \in properties : \A f \in RoomFields : Has(d, f) => d[f] >= 0
    /\ ((IsPost \/ IsPut) /\ PassedGate /\ NegativeRooms(response.body))
           => response.status = 400


-----------------------------------------------------------------------------
(* Properties of the stored contact messages *)

\* the fields of a contact message other than its read flag
Content(m) == Without(m, {"isRead"})

\* C22: a stored contact message is never removed and none of its fields
\* other than isRead ever changes, whatever the request; isRead changes only
\* from false to true.
C22_ContactFrame ==
    [][\A m \in contactMessages :
           /\ Cardinality(ById(contactMessages', m._id)) = 1
           /\ \A u \in ById(contactMessages', m._id) :
                  /\ Content(u) = Content(m)
                  /\ m.isRead => u.isRead
      ]_vars

\* the read route has just marked a message read that also carries a phone
\* number, while another stored message is still unread
C22_Witness ==
    /\ IsPostContactRead(response) /\ response.status = 200
    /\ \E m \in DocWithId(contactMessages, response.id) :
           m.isRead /\ Has(m, "phone") /\ Has(m, "subject")
    /\ \E m \in contactMessages : ~m.isRead


-----------------------------------------------------------------------------
(* Properties of a duplicate propertyCode *)

\* the stored properties, other than the one with hex id self, that hold code
HoldersOf(coll, code, self) ==
    {d \in coll : d.propertyCode = code /\ OidToString(d._id) # self}

\* C23: a create whose propertyCode, or an update of a stored property whose
\* new propertyCode, equals the code of another stored property is answered
\* 500 and stores or changes nothing; a create that fails is not tried again
\* with another code.
C23_DuplicateCodeFails ==
    [][/\ (/\ Idle /\ IsPost' /\ PassedGate' /\ response'.status # 400
           /\ Has(response'.body, "propertyCode")
           /\ HoldersOf(properties, response'.body.propertyCode, "") # {}) =>
              response'.status = 500
       /\ (/\ Idle /\ IsPut' /\ PassedGate' /\ response'.status # 400
           /\ WithId(properties, response'.id) # {}
           /\ Has(response'.body, "propertyCode")
           /\ HoldersOf(properties, response'.body.propertyCode, response'.id) # {}) =>
              response'.status = 500
       /\ ((IsPost' \/ IsPut') /\ response'.status = 500) =>
              (properties' = properties /\ oidCounter' = oidCounter)
      ]_vars

\* a create that supplied the code of a stored property was answered 500,
\* after a property had been written through the API
C23_Witness ==
    /\ IsPost /\ response.status = 500
    /\ HoldersOf(properties, response.body.propertyCode, "") # {}
    /\ writes > 0


-----------------------------------------------------------------------------
(* Properties of the seeded administrator *)

\* the username and password seedData gives the default admin
SeedAdminLogin == [username |-> SeedAdmin.username, password |-> SeedAdmin.password]

\* C25: on the store that initialize() seeded, POST /api/login with the
\* username and password of the seeded admin is answered 200 and sets
\* session.userId to that user's id.
C25_SeedAdminLogsIn ==
    (IsLogin(response) /\ response.body = SeedAdminLogin) =>
        /\ response.status = 200
        /\ \E d \in SeedUserDocs : sessionUserId = OidToString(d._id)


-----------------------------------------------------------------------------
(* Properties of the outcome of marking read and of approving *)

\* the response reports success: the storage call returned true, status 200
ReportsSuccess(resp) == resp.status = 200 /\ resp.value = TRUE

\* the response reports not-found: the storage call returned false, status 404
ReportsNotFound(resp) == resp.status = 404 /\ resp.value = FALSE

\* C26: markContactMessageAsRead(id) and approveTestimonial(id), through
\* their routes, report success (true, 200) whenever an entity with that id
\* exists, also when it is already read or approved, and report not-found
\* (false, 404) only when no entity with that id exists.
C26_OutcomeIdempotent ==
    /\ (IsPostContactRead(response) /\ Admitted(response)) =>
           /\ DocWithId(contactMessages, response.id) # {} => ReportsSuccess(response)
           /\ ReportsNotFound(response) => DocWithId(contactMessages, response.id) = {}
    /\ (IsPostApprove(response) /\ Admitted(response)) =>
           /\ DocWithId(testimonials, response.id) # {} => ReportsSuccess(response)
           /\ ReportsNotFound(response) => DocWithId(testimonials, response.id) = {}


-----------------------------------------------------------------------------
(* shared/schema.ts: cityStructure *)

\* the cities, their areas and the neighborhoods of each area, with the
\* names in Latin letters; the order of an object's keys is left out
cityStructure ==
    "Riyadh" :> (
        "North Riyadh" :> << "AlMalqa", "AlOlaya", "AlNarjis", "AlYasmin",
               "AlSahafa", "AlGhadir", "AlNada", "AlMohammadiyah", "AlRabwa" >>
        @@ "South Riyadh" :> << "AlMalaz", "AlSulaymaniyah", "AlAqiq",
               "AlDar AlBaida", "AlNaseem AlSharqi", "AlFaisaliyah", "AlManar" >>
        @@ "East Riyadh" :> << "AlWurud", "AlRayyan", "AlMuruj",
               "AlRawdah", "AlNakheel", "AlYarmuk", "Badr" >>
        @@ "West Riyadh" :> << "AlNaseem", "AlShifa", "AlMansurah",
               "AlSuwaidi", "AlKhaleej", "Irqah", "AlDiriyah" >> )
    @@ "Jeddah" :> (
        "North Jeddah" :> << "AlShati", "AlRawdah", "AlZahra", "Obhur",
               "AlNaeem", "AlFayha", "AlSafa", "AlMarjan" >>
        @@ "South Jeddah" :> << "AlBawadi", "AlHamra", "AlSalamah",
               "AlThaghr", "AlRehab", "AlNuzha", "AlSalihiyah" >>
        @@ "Central Jeddah" :> << "AlSafa", "AlBalad", "AlCorniche",
               "AlAmir Fawaz", "AlMohammadiyah", "AlKandarah", "AlHindawiyah" >> )
    @@ "Dammam" :> (
        "North Dammam" :> << "AlFaisaliyah", "AlShati AlSharqi", "AlFirdaws",
               "AlFanar", "AlNoor", "AlKhalidiyah" >>
        @@ "West Dammam" :> << "AlShati AlGharbi", "AlZuhur", "AlAmanah",
               "AlJalawiyah", "AlRawdah", "AlAthir" >>
        @@ "South Dammam" :> << "AlMuraikabat", "AlDabab",
               "AlFursan", "AlNada", "AlKhaleej" >> )
    @@ "Khobar" :> (
        "North Khobar" :> << "AlYarmuk", "AlCorniche",
               "AlAqrabiyah", "AlRakah", "AlAziziyah" >>
        @@ "South Khobar" :> << "AlAziziyah", "AlThuqbah",
               "AlHada", "AlKhuzama", "AlHizam AlDhahabi" >> )
    @@ "Makkah AlMukarramah" :> (
        "Central Makkah" :> << "AlAziziyah", "AlShawqiyah", "AlUtaybiyah",
               "Jarwal", "AlHujun", "AlMisfalah" >>
        @@ "North Makkah" :> << "AlKakiyah", "AlHijrah", "AlNawwariyah",
               "AlTaneem", "AlZahir", "AlAwali" >>
        @@ "South Makkah" :> << "AlSharai", "AlMaabdah",
               "AlHajj", "AlNaseem", "AlRusayfah" >> )
    @@ "Madinah AlMunawwarah" :> (
        "Central Madinah" :> << "AlMintaqah AlMarkaziyah", "AlUyun",
               "Quba", "AlUsbah", "Bab AlMajidi" >>
        @@ "North Madinah" :> << "AlAwali", "AlSeeh", "AlHarrah AlSharqiyah",
               "AlJumah", "AlMabuth", "Abyar Ali" >>
        @@ "South Madinah" :> << "Qurban", "AlKhalidiyah", "AlAziziyah", "AlFath" >> )
    @@ "Taif" :> (
        "Central Taif" :> << "AlFaisaliyah", "AlAziziyah", "AlSalamah", "AlMathnah" >>
        @@ "North Taif" :> << "AlShifa", "AlHawiyah", "AlRabwa", "AlNuzha", "AlWisam" >>
        @@ "East Taif" :> << "AlSadad", "AlNaseem", "AlKhalidiyah", "AlRayyan" >> )
    @@ "Abha" :> (
        "Central Abha" :> << "AlMansak", "AlMuruj",
               "AlMuwazafin AlShamali", "AlWadiyayn" >>
        @@ "North Abha" :> << "AlMuwazafin", "AlDabab", "AlSamer", "AlKhasha" >>
        @@ "East Abha" :> << "AlWurud", "AlNaseem", "AlBadi", "AlNakheel" >> )
    @@ "Tabuk" :> (
        "Central Tabuk" :> << "AlFaisaliyah", "AlSulaymaniyah", "AlMuruj" >>
        @@ "North Tabuk" :> << "AlWurud", "AlNaseem", "AlAmir Fahd" >>
        @@ "South Tabuk" :> << "AlKhalidiyah", "AlRawdah", "AlSinaiyah" >> )
    @@ "Buraydah" :> (
        "Central Buraydah" :> << "AlIskan", "AlFayziyah", "AlMuntazah" >>
        @@ "North Buraydah" :> << "AlKhubayb", "AlSafra", "AlNaqa" >>
        @@ "East Buraydah" :> << "AlRawdah", "AlMuayqiliyah", "AlDahiyah" >> )

\* Object.keys(cityStructure[city])
AreasOf(city) ==
    IF city \in DOMAIN cityStructure THEN DOMAIN cityStructure[city] ELSE {}

\* cityStructure[city][area], the neighborhoods the cascading filter offers
NeighborhoodsOf(city, area) ==
    IF area \in AreasOf(city) THEN Elements(cityStructure[city][area]) ELSE {}


-----------------------------------------------------------------------------
(* Properties of the seeded locations *)

\* the search the cascading filter submits for a city, area and neighborhood
LocationSearch(city, area, neighborhood) ==
    [city |-> city, area |-> area, neighborhood |-> neighborhood]

\* C30: the city, area and neighborhood of every seeded property are
\* consistent with cityStructure, so a search on a neighborhood value that
\* the cascading filter offers for its city and area finds it.
C30_SeedsInCityStructure ==
    SeededAndReturned =>
        \A i \in 1..Len(sampleProperties) : \A d \in SeedPropertyDocs(i) :
            /\ d.area \in AreasOf(d.city)
            /\ d.neighborhood \in NeighborhoodsOf(d.city, d.area)
            /\ \E n \in NeighborhoodsOf(d.city, d.area) :
                   \A arr \in searchProperties(properties, LocationSearch(d.city, d.area, n)) :
                       d \in Elements(arr)


-----------------------------------------------------------------------------
(* client/src/pages/properties.tsx: the cascading location selects of
   HeroSearch and of the Properties page *)

\* the variables of the server, which the client's components leave alone
serverVars ==
    <<users, properties, oidCounter, now, sessionUserId, writes, response,
      feedbackVars, bootVars, previous>>

\* a select with nothing chosen, a search parameter that is absent
Unset == ""

\* the cities a visitor chooses among: cities of cityStructure and one city
\* that cityStructure does not hold
CityInputs == {"Riyadh", "Jeddah", "Hail"}

\* the names an area select and a neighborhood select may offer
AreaNames == UNION {AreasOf(city) : city \in CityInputs}
NeighborhoodNames ==
    UNION {NeighborhoodsOf(city, area) : city \in CityInputs, area \in AreaNames}

\* city && city !== 'all' && cityStructure[city]
CityKnown(city) ==
    city # Unset /\ city # "all" /\ city \in DOMAIN cityStructure

\* city && area && area !== 'all' && cityStructure[city] && cityStructure[city][area]
AreaKnown(city, area) ==
    /\ city # Unset /\ area # Unset /\ area # "all"
    /\ city \in DOMAIN cityStructure
    /\ area \in DOMAIN cityStructure[city]

\* the value a parameter of the query string gets: a value that is unset or
\* 'all' is not appended
Param(value) == IF value # Unset /\ value # "all" THEN value ELSE Unset

\* the location parameters of the query string built from the selections
QueryOf(form) ==
    [city |-> Param(form.city), area |-> Param(form.area),
     neighborhood |-> Param(form.neighborhood)]

EmptyQuery == [city |-> Unset, area |-> Unset, neighborhood |-> Unset]

\* the state of HeroSearch when it mounts: its useState initial values; ran
\* and the dep fields are the dependencies of the last run of its effects
HeroMount ==
    [city |-> Unset, area |-> Unset, neighborhood |-> Unset,
     areas |-> {}, neighborhoods |-> {},
     ran |-> FALSE, depCity |-> Unset, depArea |-> Unset, last |-> "none"]

\* the state of Properties when it mounts: searchParams = {} and empty lists
PropertiesMount ==
    [city |-> Unset, area |-> Unset, neighborhood |-> Unset,
     areas |-> {}, neighborhoods |-> {},
     ran |-> FALSE, depCity |-> Unset, depArea |-> Unset, last |-> "none",
     depLocation |-> EmptyQuery]

\* the seeded server and a browser that shows the home page
FormInit ==
    LET times == [i \in 1..Len(sampleProperties) |-> 0]
    IN  /\ users = createUser({}, SeedAdmin, 1, 0).coll
        /\ properties = SeedProperties({}, 1, times)
        /\ oidCounter = SeedOids
        /\ now = 0
        /\ sessionUserId = NoSession
        /\ writes = 0
        /\ response = NoResponse
        /\ testimonials = SeedTestimonials({}, 1, 0)
        /\ contactMessages = {}
        /\ initialized = TRUE
        /\ registered = TRUE
        /\ collections = TRUE
        /\ calls = [c \in Calls |-> IF c = 1 THEN Returned ELSE NotCalled]
        /\ previous = NoResponse
        /\ client = [page |-> "home", location |-> EmptyQuery, form |-> HeroMount]

\* the effects of the mounted component have run for its current state
Settled ==
    LET s == client.form
    IN  /\ s.ran /\ s.depCity = s.city /\ s.depArea = s.area
        /\ client.page = "properties" => s.depLocation = client.location

\* HeroSearch: the two effects, run after a render in which city or area
\* changed; each reads the state of that render, and their state updates are
\* applied in order
HeroEffects ==
    /\ client.page = "home"
    /\ LET s == client.form
           cityChanged == ~s.ran \/ s.depCity # s.city
           areaChanged == ~s.ran \/ s.depArea # s.area
           afterCity ==
               IF cityChanged
               THEN [s EXCEPT !.areas = IF CityKnown(s.city) THEN AreasOf(s.city) ELSE {},
                              !.area = Unset, !.neighborhood = Unset,
                              !.neighborhoods = {}]
               ELSE s
           afterArea ==
               IF cityChanged \/ areaChanged
               THEN [afterCity EXCEPT
                        !.neighborhoods = IF AreaKnown(s.city, s.area)
                                          THEN NeighborhoodsOf(s.city, s.area) ELSE {},
                        !.neighborhood = Unset]
               ELSE afterCity
       IN  /\ cityChanged \/ areaChanged
           /\ client' = [client EXCEPT !.form =
                            [afterArea EXCEPT !.ran = TRUE, !.depCity = s.city,
                                              !.depArea = s.area]]
    /\ UNCHANGED serverVars

\* HeroSearch: <Select value={city} onValueChange={setCity}>
HeroSelectCity(value) ==
    /\ client.page = "home" /\ Settled
    /\ client' = [client EXCEPT !.form.city = value,
                     !.form.last = IF value # client.form.city THEN "city" ELSE @]
    /\ UNCHANGED serverVars

\* HeroSearch: the area select, disabled while no city is chosen
HeroSelectArea(value) ==
    /\ client.page = "home" /\ Settled
    /\ ~(client.form.city = Unset \/ client.form.city = "all")
    /\ value \in {"all"} \cup client.form.areas
    /\ client' = [client EXCEPT !.form.area = value,
                     !.form.last = IF value # client.form.area THEN "area" ELSE @]
    /\ UNCHANGED serverVars

\* HeroSearch: the neighborhood select, disabled while no area is chosen
HeroSelectNeighborhood(value) ==
    /\ client.page = "home" /\ Settled
    /\ ~(client.form.area = Unset \/ client.form.area = "all")
    /\ value \in {"all"} \cup client.form.neighborhoods
    /\ client' = [client EXCEPT !.form.neighborhood = value,
                     !.form.last = IF value # client.form.neighborhood
                                   THEN "neighborhood" ELSE @]
    /\ UNCHANGED serverVars

\* HeroSearch.handleSearch: navigate to /properties with the query string;
\* the Properties page mounts
HeroSubmit ==
    /\ client.page = "home" /\ Settled
    /\ client' = [page |-> "properties", location |-> QueryOf(client.form),
                  form |-> PropertiesMount]
    /\ UNCHANGED serverVars

\* the city select's handler without the reset of area and neighborhood
PropertiesSelectCityKeeping(value) ==
    /\ client.page = "properties" /\ Settled
    /\ client' = [client EXCEPT !.form.city = value,
                     !.form.last = IF value # client.form.city THEN "city" ELSE @]
    /\ UNCHANGED serverVars

\* Properties: the city select,
\* setSearchParams({...searchParams, city: value, area: undefined, neighborhood: undefined})
PropertiesSelectCity(value) ==
    /\ client.page = "properties" /\ Settled
    /\ client' = [client EXCEPT !.form.city = value, !.form.area = Unset,
                     !.form.neighborhood = Unset,
                     !.form.last = IF value # client.form.city THEN "city" ELSE @]
    /\ UNCHANGED serverVars

\* Properties: the area select,
\* setSearchParams({...searchParams, area: value, neighborhood: undefined})
PropertiesSelectArea(value) ==
    /\ client.page = "properties" /\ Settled
    /\ ~(client.form.city = Unset \/ client.form.city = "all")
    /\ value \in {"all"} \cup client.form.areas
    /\ client' = [client EXCEPT !.form.area = value, !.form.neighborhood = Unset,
                     !.form.last = IF value # client.form.area THEN "area" ELSE @]
    /\ UNCHANGED serverVars

\* Properties: the neighborhood select,
\* setSearchParams({...searchParams, neighborhood: value})
PropertiesSelectNeighborhood(value) ==
    /\ client.page = "properties" /\ Settled
    /\ ~(client.form.area = Unset \/ client.form.area = "all")
    /\ value \in {"all"} \cup client.form.neighborhoods
    /\ client' = [client EXCEPT !.form.neighborhood = value,
                     !.form.last = IF value # client.form.neighborhood
                                   THEN "neighborhood" ELSE @]
    /\ UNCHANGED serverVars

\* Properties: the three effects, run after a render in which
\* searchParams.city, searchParams.area or the location changed; the updates
\* of searchParams are applied in the order of the effects, and the last
\* effect replaces searchParams by the parameters of the location
PropertiesEffects ==
    /\ client.page = "properties"
    /\ LET s == client.form
           cityChanged == ~s.ran \/ s.depCity # s.city
           areaChanged == ~s.ran \/ s.depArea # s.area
           locationChanged == ~s.ran \/ s.depLocation # client.location
           afterCity ==
               IF ~cityChanged THEN s
               ELSE IF CityKnown(s.city)
               THEN [s EXCEPT !.areas = AreasOf(s.city)]
               ELSE [s EXCEPT !.areas = {}, !.area = Unset, !.neighborhood = Unset]
           afterArea ==
               IF ~(cityChanged \/ areaChanged) THEN afterCity
               ELSE IF AreaKnown(s.city, s.area)
               THEN [afterCity EXCEPT !.neighborhoods = NeighborhoodsOf(s.city, s.area)]
               ELSE [afterCity EXCEPT !.neighborhoods = {}, !.neighborhood = Unset]
           afterLocation ==
               IF ~locationChanged THEN afterArea
               ELSE [afterArea EXCEPT !.city = client.location.city,
                                      !.area = client.location.area,
                                      !.neighborhood = client.location.neighborhood]
       IN  /\ cityChanged \/ areaChanged \/ locationChanged
           /\ client' = [client EXCEPT !.form =
                            [afterLocation EXCEPT !.ran = TRUE, !.depCity = s.city,
                                                  !.depArea = s.area,
                                                  !.depLocation = client.location]]
    /\ UNCHANGED serverVars

\* Properties.handleSearch: navigate to /properties with the query string
PropertiesSubmit ==
    /\ client.page = "properties" /\ Settled
    /\ client' = [client EXCEPT !.location = QueryOf(client.form),
                                !.form.last = "none"]
    /\ UNCHANGED serverVars

\* the visitor returns to the home page; HeroSearch mounts
GoHome ==
    /\ client.page = "properties" /\ Settled
    /\ client' = [page |-> "home", location |-> EmptyQuery, form |-> HeroMount]
    /\ UNCHANGED serverVars

\* a visitor using the two search forms
FormNext ==
    \/ HeroEffects
    \/ \E value \in {"all"} \cup CityInputs : HeroSelectCity(value)
    \/ \E value \in {"all"} \cup AreaNames : HeroSelectArea(value)
    \/ \E value \in {"all"} \cup NeighborhoodNames : HeroSelectNeighborhood(value)
    \/ HeroSubmit
    \/ PropertiesEffects
    \/ \E value \in {"all"} \cup CityInputs : PropertiesSelectCity(value)
    \/ \E value \in {"all"} \cup AreaNames : PropertiesSelectArea(value)
    \/ \E value \in {"all"} \cup NeighborhoodNames : PropertiesSelectNeighborhood(value)
    \/ PropertiesSubmit
    \/ GoHome

FormSpec == FormInit /\ [][FormNext]_vars


-----------------------------------------------------------------------------
(* Properties of the cascading location selects *)

\* the area, when given, is of the city, and the neighborhood, when given,
\* is of the city and area
QueryConsistent(query) ==
    /\ query.area # Unset => query.area \in AreasOf(query.city)
    /\ query.neighborhood # Unset =>
           query.neighborhood \in NeighborhoodsOf(query.city, query.area)

\* C24: in both search forms, once the effects have settled, the selected
\* area is unset, 'all' or an area of the selected city, the selected
\* neighborhood is unset, 'all' or a neighborhood of the selected city and
\* area, and the offered lists are those of the current city and of the
\* current city and area; after a change of the city the area and the
\* neighborhood are cleared, after a change of the area the neighborhood is
\* cleared; the query a form submits, and the query the Properties page
\* fetches, never carries an area that is not of its city or a neighborhood
\* that is not of its area.
C24_CascadeConsistent ==
    LET s == client.form
    IN  /\ Settled =>
               /\ s.area \in {Unset, "all"} \cup AreasOf(s.city)
               /\ s.neighborhood \in {Unset, "all"} \cup NeighborhoodsOf(s.city, s.area)
               /\ s.areas = AreasOf(s.city)
               /\ s.neighborhoods = NeighborhoodsOf(s.city, s.area)
               /\ s.last = "city" => (s.area = Unset /\ s.neighborhood = Unset)
               /\ s.last = "area" => s.neighborhood = Unset
        /\ QueryConsistent(client.location)
        /\ client.page = "properties" => QueryConsistent(QueryOf(s))

\* the Properties page, opened by a search of HeroSearch for a neighborhood
\* of Riyadh, has settled on a neighborhood of another city that two of that
\* city's areas share
C24_Witness ==
    /\ client.page = "properties" /\ Settled
    /\ client.location.city = "Riyadh" /\ client.location.neighborhood # Unset
    /\ client.form.city = "Jeddah" /\ client.form.area = "Central Jeddah"
    /\ client.form.neighborhood = "AlSafa"


-----------------------------------------------------------------------------
(* client/src/pages/property-details.tsx: the details page, its queries and
   its image gallery *)

\* properties an administrator has listed besides the samples: villas for
\* sale in Riyadh, as the first sample is, with one to six images
DetailsListings ==
    << Spread(BaseBody, [images |-> <<"img1", "img2", "img3">>]),
       Spread(BaseBody, [propertyCode |-> "SA-20002"]),
       Spread(BaseBody, [propertyCode |-> "SA-20003",
                         images |-> <<"img1", "img2", "img3", "img4", "img5", "img6">>]),
       Spread(BaseBody, [propertyCode |-> "SA-20004", images |-> <<"img1", "img2">>]) >>

\* the properties collection after the listings from index i on were
\* created through POST /api/properties, one per tick of the clock
RECURSIVE Listed(_, _)
Listed(coll, i) ==
    IF i > Len(DetailsListings) THEN coll
    ELSE Listed(createProperty(coll,
                               ZodParse(insertPropertySchema, DetailsListings[i], FALSE).data,
                               SeedOids + i, i).coll,
                i + 1)

\* the hex ids of the stored properties, which the links of the site carry
DetailIds == {OidToString(d._id) : d \in properties}

\* the state of PropertyDetails when it mounts on /properties/:id, with an
\* empty query cache: propertyCache holds the data of the details queries by
\* property id, similarCache the data (none, or one array) of the query
\* whose key is ['/api/properties/search']
DetailsMount(id) ==
    [page |-> "details", propertyId |-> id,
     galleryOpen |-> FALSE, currentImageIndex |-> 0,
     propertyCache |-> EmptyObj, similarCache |-> << >>]

\* the seeded server after the listings were created, and a browser that
\* opens the details page of a stored property
DetailsInit ==
    LET times == [i \in 1..Len(sampleProperties) |-> 0]
    IN  /\ users = createUser({}, SeedAdmin, 1, 0).coll
        /\ properties = Listed(SeedProperties({}, 1, times), 1)
        /\ oidCounter = SeedOids + Len(DetailsListings)
        /\ now = Len(DetailsListings)
        /\ sessionUserId = NoSession
        /\ writes = 0
        /\ response = NoResponse
        /\ testimonials = SeedTestimonials({}, 1, 0)
        /\ contactMessages = {}
        /\ initialized = TRUE
        /\ registered = TRUE
        /\ collections = TRUE
        /\ calls = [c \in Calls |-> IF c = 1 THEN Returned ELSE NotCalled]
        /\ previous = NoResponse
        /\ client \in {DetailsMount(OidToString(d._id)) :
                          d \in Listed(SeedProperties({}, 1, times), 1)}

\* const { data: property } = useQuery(...): none, or the cached data of the
\* property the route names
PropertyData ==
    IF client.propertyId \in DOMAIN client.propertyCache
    THEN <<client.propertyCache[client.propertyId]>> ELSE << >>

\* the page shows the details of a property: its data has arrived
Shown == PropertyData # << >>

\* the images of the property shown
Images == PropertyData[1].images

\* the route changes to the details page of another property, by a link of
\* the page or through the browser's history; the component stays mounted
\* (its effect on [propertyId] provides for that), so galleryOpen and
\* currentImageIndex are kept, and so is the query cache
Navigate(id) ==
    /\ client.page = "details"
    /\ id # client.propertyId
    /\ client' = [client EXCEPT !.propertyId = id]
    /\ UNCHANGED serverVars

\* the details query fetches GET /api/properties/:id when its key has no data
FetchProperty ==
    /\ client.page = "details"
    /\ ~Shown
    /\ LET r == getProperty(properties, client.propertyId)
       IN  /\ r.found
           /\ client' = [client EXCEPT !.propertyCache =
                            Spread(@, Obj(client.propertyId, ToJson(r.value)))]
    /\ UNCHANGED serverVars

\* String(property.isRental)
BoolString(b) == IF b THEN "true" ELSE "false"

\* allProperties.filter(p => (p._id || p.id) !== propertyId).slice(0, 3)
SimilarOf(allProperties, propertyId) ==
    LET others == SelectSeq(allProperties, LAMBDA p : p._id # propertyId)
    IN  SubSeq(others, 1, IF Len(others) < 3 THEN Len(others) ELSE 3)

\* the similar-properties query runs its queryFn: enabled once the property
\* is there; it runs when its key has no data and, where the client's
\* settings call cached data stale, again when the query is enabled anew
FetchSimilar ==
    /\ client.page = "details"
    /\ Shown
    /\ LET property == PropertyData[1]
           query == [city |-> property.city, type |-> property.type,
                     isRental |-> BoolString(property.isRental)]
           parsed == propertySearchParse(SearchParamsOf(query))
       IN  /\ parsed.ok
           /\ \E arr \in searchProperties(properties, parsed.data) :
                  client' = [client EXCEPT !.similarCache =
                                <<SimilarOf(ToJsonAll(arr), client.propertyId)>>]
    /\ UNCHANGED serverVars

\* the images that open the gallery: the main image and the thumbnails of
\* property.images.slice(1, 5), each at its index in property.images
OpenersOf(images) == {0} \cup {k \in 1..4 : k < Len(images)}

\* openGallery(index), from the main image or a thumbnail of the page
OpenGallery(index) ==
    /\ client.page = "details"
    /\ Shown /\ ~client.galleryOpen
    /\ index \in OpenersOf(Images)
    /\ client' = [client EXCEPT !.currentImageIndex = index, !.galleryOpen = TRUE]
    /\ UNCHANGED serverVars

\* the gallery dialog is rendered and open
GalleryShown == client.page = "details" /\ Shown /\ client.galleryOpen

\* nextImage(), by the button or the ArrowLeft key
NextImage ==
    /\ GalleryShown
    /\ client' = IF client.currentImageIndex < Len(Images) - 1
                 THEN [client EXCEPT !.currentImageIndex = @ + 1]
                 ELSE client
    /\ UNCHANGED serverVars

\* previousImage(), by the button or the ArrowRight key
PreviousImage ==
    /\ GalleryShown
    /\ client' = IF client.currentImageIndex > 0
                 THEN [client EXCEPT !.currentImageIndex = @ - 1]
                 ELSE client
    /\ UNCHANGED serverVars

\* a click on a thumbnail of the dialog: setCurrentImageIndex(index)
ThumbnailClick(index) ==
    /\ GalleryShown
    /\ index \in 0..(Len(Images) - 1)
    /\ client' = [client EXCEPT !.currentImageIndex = index]
    /\ UNCHANGED serverVars

\* setGalleryOpen(false), by the close button, the Escape key or the dialog
CloseGallery ==
    /\ GalleryShown
    /\ client' = [client EXCEPT !.galleryOpen = FALSE]
    /\ UNCHANGED serverVars

\* the indexes of the images of the property shown
ImageIndexes == IF Shown THEN 0..(Len(Images) - 1) ELSE {}

\* a visitor moving between details pages and through their galleries
DetailsNext ==
    \/ \E id \in DetailIds : Navigate(id)
    \/ FetchProperty
    \/ FetchSimilar
    \/ \E index \in ImageIndexes : OpenGallery(index)
    \/ NextImage
    \/ PreviousImage
    \/ \E index \in ImageIndexes : ThumbnailClick(index)
    \/ CloseGallery

DetailsSpec == DetailsInit /\ [][DetailsNext]_vars


-----------------------------------------------------------------------------
(* Properties of the details page *)

\* C27: the similar-properties list shown on the details page of a property
\* never contains that property and never has more than 3 entries, whatever
\* details pages were visited before.
C27_SimilarExcludesViewed ==
    (client.page = "details" /\ Shown /\ client.similarCache # << >>) =>
        LET similarProperties == client.similarCache[1]
        IN  /\ Len(similarProperties) <= 3
            /\ \A k \in 1..Len(similarProperties) :
                   similarProperties[k]._id # client.propertyId

\* C28: whenever the gallery of the property shown is open, the current
\* image index is at least 0 and less than the number of images of that
\* property, whatever gallery actions and navigations to another property
\* came before, so that the counter shows a position between 1 and the
\* number of images.
C28_GalleryIndexInRange ==
    GalleryShown =>
        (client.currentImageIndex >= 0 /\ client.currentImageIndex < Len(Images))


-----------------------------------------------------------------------------
(* server/storage.ts: the methods of an instance and its initialize() *)

NotInitialized == "Database not initialized"

\* the outcome of a method called on the instance: refused by the method's
\* first line, or served through the collection
Refused(op) == [op |-> op, threw |-> TRUE, error |-> NotInitialized, served |-> FALSE]
ServedBy(op) == [op |-> op, threw |-> FALSE, error |-> "", served |-> TRUE]

\* the methods called, one or two of each group: users, properties, contact
\* messages, testimonials
MethodNames ==
    { "getUserByUsername", "getProperty", "getFeaturedProperties",
      "getAllContactMessages", "createContactMessage", "getApprovedTestimonials" }

\* a caller that holds the storage instance calls a method that reads:
\* if (!this.xCollection) throw new Error("Database not initialized"), then
\* the query
InstanceRead(op) ==
    /\ Idle
    /\ op \in MethodNames \ {"createContactMessage"}
    /\ response' = IF ~collections THEN Refused(op) ELSE ServedBy(op)
    /\ UNCHANGED <<users, properties, oidCounter, now, sessionUserId, writes,
                   feedbackVars, bootVars, previous, client>>

\* a caller that holds the storage instance calls createContactMessage
InstanceCreateContactMessage(message) ==
    /\ Idle
    /\ LET op == "createContactMessage"
           r == createContactMessage(contactMessages, message, oidCounter + 1, now)
       IN  IF ~collections
           THEN /\ response' = Refused(op)
                /\ UNCHANGED <<contactMessages, oidCounter, writes>>
           ELSE /\ writes < MaxSubmissions
                /\ contactMessages' = r.coll
                /\ oidCounter' = oidCounter + 1
                /\ writes' = writes + 1
                /\ response' = ServedBy(op)
    /\ UNCHANGED <<users, properties, now, sessionUserId, testimonials,
                   bootVars, previous, client>>

\* the initialize() calls of a process and the method calls of its callers
InstanceNext ==
    \/ Receive
    \/ \E c \in Calls : InitializeCall(c)
    \/ \E c \in Calls : Connected(c)
    \/ \E c \in Calls : IndexesCreated(c)
    \/ \E c \in Calls : Counted(c)
    \/ \E c \in Calls : SeedStep(c)
    \/ \E c \in Calls : InitializeThrows(c)
    \/ \E op \in MethodNames : InstanceRead(op)
    \/ InstanceCreateContactMessage(ContactBody)

InstanceSpec == BootInit /\ [][InstanceNext]_vars

\* the response is the outcome of a method called on the instance
IsMethodCall == response.op \in MethodNames

\* initialize() was never called on the instance
NeverCalled == \A c \in Calls : calls[c] = NotCalled

\* C29: a storage method called on an instance on which initialize() was
\* never called fails with 'Database not initialized' and reaches no
\* collection; and a method is served only after an initialize() has
\* completed successfully, not while one is in progress and not after one
\* that failed.
C29_ServedOnlyWhenInitialized ==
    IsMethodCall =>
        /\ NeverCalled => (response = Refused(response.op))
        /\ response.served => initialized

=============================================================================
